---- MODULE Spec2Model ----
(***************************************************************************)
(* Model of the Meshtastic broadcast broker (Meshtastic_Broker_v2.1.py):   *)
(* the stats counters, the client registry, the ingestion loop, the        *)
(* upstream callback, the per-client TCP handlers and shutdown, as threads *)
(* that share the three locks _clients_lock, _stats_lock, _interface_lock. *)
(***************************************************************************)
EXTENDS Integers, Sequences, FiniteSets, TLC

\* ------------------------------------------------------------------ bounds
\* Number of events the upstream library delivers to _pubsub_callback.
MaxEvents == 2
\* The same, where the clients of the registry are followed step by step.
MaxRegistryEvents == 1
MaxInbound == 1
MaxDepth == 2
MaxBytes == 2

\* ------------------------------------------------------- program constants
\* Tasks the bot creates in one run.
MaxTasks == 3
\* Chats that send commands to the bot.
MaxChats == 2

\* One tick is the poll sleep of the loop, time.sleep(0.5).
POLL_TICKS == 1
\* now - last_hb >= 5.0
HEARTBEAT_TICKS == 10
\* now - _last_priming < 60
PRIMING_TICKS == 120
\* time.sleep(3.0) in both except branches
BACKOFF_TICKS == 6

\* ------------------------------------------------------------------ threads
LOOP == "loop"
MAIN == "main"
Deliverers == {"d1", "d2"}
Clients == {"c1", "c2"}
NoThread == "none"
Broadcasters == {LOOP} \cup Deliverers
Threads == {LOOP, MAIN} \cup Deliverers \cup Clients

\* ------------------------------------------------------------ Python values
PyNone == [k |-> "none"]
PyInt(n) == [k |-> "int", i |-> n]
PyBool(v) == [k |-> "bool", b |-> v]
PyStr(t) == [k |-> "str", s |-> t]
PyDict(f) == [k |-> "dict", d |-> f]
EmptyDict == PyDict(<<>>)

\* isinstance(v, dict)
IsDict(v) == v.k = "dict"
\* isinstance(v, int): bool is a subclass of int
IsInt(v) == v.k \in {"int", "bool"}
\* The dict key an int-like value hashes and compares as (True == 1).
KeyOf(v) == IF v.k = "bool" THEN (IF v.b THEN 1 ELSE 0) ELSE v.i

\* k in d, d[k], and d with d[k] = v, for a PyDict d
HasKey(v, key) == key \in DOMAIN v.d
DictSet(v, key, val) ==
    PyDict([x \in (DOMAIN v.d) \cup {key} |-> IF x = key THEN val ELSE v.d[x]])
\* d.get(key, default)
DictGet(v, key, default) == IF HasKey(v, key) THEN v.d[key] ELSE default

\* _get(d, path, default=None): walk nested mappings along the path
RECURSIVE _get(_, _)
_get(cur, path) ==
    IF path = <<>> THEN cur
    ELSE IF ~IsDict(cur) \/ ~HasKey(cur, Head(path)) THEN PyNone
    ELSE _get(cur.d[Head(path)], Tail(path))

candidates ==
    << <<"decoded", "header", "channelIndex">>,
       <<"decoded", "header", "channel_index">>,
       <<"rxMetadata", "channel">>,
       <<"rx_metadata", "channel">>,
       <<"decoded", "channel">>,
       <<"decoded", "channel_index">> >>

RECURSIVE FirstInt(_, _)
FirstInt(pkt, paths) ==
    IF paths = <<>> THEN PyNone
    ELSE IF IsInt(_get(pkt, Head(paths))) THEN _get(pkt, Head(paths))
    ELSE FirstInt(pkt, Tail(paths))

\* _extract_channel(pkt)
_extract_channel(pkt) == FirstInt(pkt, candidates)

\* The events the upstream library delivers in this model.
PktHeader0 == PyDict("decoded" :> PyDict("header" :> PyDict("channelIndex" :> PyInt(0))))
PktRx1 == PyDict("rxMetadata" :> PyDict("channel" :> PyInt(1)))
PktNoChannel == PyDict("decoded" :> PyDict("portnum" :> PyStr("TEXT")))
PktBoolMeta ==
    PyDict("decoded" :> PyDict("channel" :> PyBool(TRUE)) @@ "meta" :> PyStr("x"))
\* decoded.header.channelIndex = 3, arriving with a meta that already says 0
PktStaleMeta ==
    PyDict("decoded" :> PyDict("header" :> PyDict("channelIndex" :> PyInt(3)))
           @@ "meta" :> PyDict("channelIndex" :> PyInt(0)))
Packets == {PktHeader0, PktRx1, PktNoChannel, PktBoolMeta}
\* The same with the event that brings its own meta.channelIndex.
TaggedPackets == Packets \cup {PktStaleMeta}

\* The events _extract_channel is studied on: every combination of the six
\* fields being missing, an integer (a different one at each path, 0 at the
\* first), a boolean or a string, and of decoded, decoded.header, rxMetadata
\* and rx_metadata being missing, a mapping or something else.
Absent == [k |-> "absent"]
Opt(key, v) == IF v = Absent THEN <<>> ELSE key :> v
ExtractEvents ==
    LET LeafAt(i) ==
            {Absent, PyInt(i - 1), PyStr("x")}
            \cup (IF i = 5 THEN {PyBool(TRUE)} ELSE {})
        HeaderShapes ==
            {Absent, PyInt(9)}
            \cup {PyDict(Opt("channelIndex", a) @@ Opt("channel_index", b)) :
                      a \in LeafAt(1), b \in LeafAt(2)}
        DecodedShapes ==
            {Absent, PyStr("raw")}
            \cup {PyDict(Opt("header", h) @@ Opt("channel", c) @@ Opt("channel_index", d)) :
                      h \in HeaderShapes, c \in LeafAt(5), d \in LeafAt(6)}
        MetaShapes(i) ==
            {Absent, PyStr("x")} \cup {PyDict(Opt("channel", a)) : a \in LeafAt(i)}
    IN  {PyDict(Opt("decoded", d) @@ Opt("rxMetadata", r) @@ Opt("rx_metadata", q)) :
            d \in DecodedShapes, r \in MetaShapes(3), q \in MetaShapes(4)}

\* _pubsub_callback, lines 243-246: packet["meta"]["channelIndex"] = ch
\* (against keeping a channelIndex the event came with)
TagIfAbsent(pkt) ==
    LET meta0 == IF HasKey(pkt, "meta") /\ IsDict(pkt.d["meta"])
                 THEN pkt.d["meta"] ELSE EmptyDict
    IN  IF HasKey(meta0, "channelIndex") THEN DictSet(pkt, "meta", meta0)
        ELSE DictSet(pkt, "meta", DictSet(meta0, "channelIndex", _extract_channel(pkt)))
TagPacket(pkt) ==
    LET meta0 == IF HasKey(pkt, "meta") /\ IsDict(pkt.d["meta"])
                 THEN pkt.d["meta"] ELSE EmptyDict
    IN  DictSet(pkt, "meta", DictSet(meta0, "channelIndex", _extract_channel(pkt)))

\* _inc_stats_from_packet, line 190
StatsChannel(pkt) ==
    LET meta == DictGet(pkt, "meta", EmptyDict)
    IN  DictGet(meta, "channelIndex", _extract_channel(pkt))

\* ------------------------------------------------------------------ lines
\* A string is a sequence of tokens; NL is the newline character and a JSON
\* token stands for the text json.dumps produced for one object.
NL == [tok |-> "newline"]
JsonText(o) == [tok |-> "json", obj |-> o]

\* _safe_json_dumps(obj): one line of compact JSON, no raw newline in it
_safe_json_dumps(o) == <<JsonText(o)>>

\* line.rstrip("\n")
RECURSIVE rstrip_nl(_)
rstrip_nl(str) ==
    IF str # <<>> /\ str[Len(str)] = NL
    THEN rstrip_nl(SubSeq(str, 1, Len(str) - 1))
    ELSE str

\* _safe_send_line: data = (line.rstrip("\n") + "\n").encode(...)
WireDataUnterminated(ln) == rstrip_nl(ln)
WireData(ln) == Append(rstrip_nl(ln), NL)

\* ------------------------------------------------------------------ state
VARIABLES
    pc,               \* position of every thread
    ret,              \* where a thread continues after _broadcast_json returns
    clients_lock,     \* holder of _clients_lock
    stats_lock,       \* holder of _stats_lock
    interface_lock,   \* holder of _interface_lock
    _clients,         \* the registry: list of client sockets
    sock,             \* each client socket as the broker holds it
    peer,             \* the remote end of each client connection
    _total_packets,
    _by_channel,
    _interface,       \* the upstream handle, NoConn for None
    opened,           \* TCPInterface objects created and not yet closed
    lost,             \* open TCPInterface objects whose link to the node broke
    subscribed,       \* _pubsub_callback is subscribed to meshtastic.receive
    _should_run,
    hb_age,           \* now - last_hb, in ticks, saturating
    pr_age,           \* now - _last_priming, in ticks, saturating
    cb,               \* frame of _pubsub_callback / _inc_stats_from_packet
    bc,               \* frame of _broadcast_json
    snap,             \* the dict _get_stats is building
    delivered,        \* history: events delivered to the callback
    done_total,       \* history: increments completed
    done_by,          \* history: completed increments per integer channel
    history,          \* history: the stats after each completed increment
    removals,         \* history: removals of each connection attempted
    crashed,          \* threads ended by an exception nobody caught
    opens,            \* history: TCPInterface objects constructed
    announced,        \* history: "connected" lines handed to _broadcast_json
    packet_lines,     \* history: packet lines serialized by _broadcast_json
    since_hb,         \* history: ticks since the last heartbeat was decided
    since_pr,         \* history: ticks since the last priming was decided
    inbox,            \* bytes each client has sent that recv has not returned yet
    arg,              \* the argument of the function call under study
    result,           \* what that call returned
    teardown,         \* history: the steps _close_interface has taken
    seen,             \* history: what the clients have been sent so far
    bot               \* the Telegram bot: its BrokerClient and its tasks

lockVars == <<clients_lock, stats_lock, interface_lock>>
regVars == <<_clients, sock, peer>>
statsVars == <<_total_packets, _by_channel>>
ifaceVars == <<_interface, opened, lost, subscribed, _should_run>>
timeVars == <<hb_age, pr_age>>
frameVars == <<cb, bc, snap, ret>>
obsVars == <<opens, announced, packet_lines, since_hb, since_pr>>
histVars == <<delivered, done_total, done_by, history, removals, crashed, obsVars>>
auxVars == <<inbox, arg, result, teardown, seen, bot>>
vars == <<pc, lockVars, regVars, statsVars, ifaceVars, timeVars, frameVars, histVars,
          auxVars>>

NoConn == 0
NoCb == [received |-> PyNone, packet |-> PyNone, ch |-> PyNone, tmp |-> 0]
NoBc == [obj |-> PyNone, line |-> <<>>, i |-> 0, drop |-> <<>>, start |-> <<>>,
         ok |-> <<>>]
NoSnap == [total |-> 0, by_channel |-> [alias |-> FALSE, val |-> <<>>]]

StartPc(t) ==
    IF t = LOOP THEN "loop_while"
    ELSE IF t = MAIN THEN "m_running"
    ELSE IF t \in Deliverers THEN "cb_idle"
    ELSE "h_listen"

\* No function call made yet.
NoResult == [done |-> FALSE]
\* Nothing sent yet.  rx counts the packet lines written to each client; status
\* is the total of the latest stats line written to it and the packet lines it
\* had by then; prev and last are the stats of the two latest stats lines
\* serialized, lines their number (up to two).  The record is kept only where
\* on is set, in the specifications that look at the clients' streams.
NoStats == [total |-> 0, by_channel |-> <<>>]
NoSeen == [on |-> FALSE, rx |-> [c \in Clients |-> 0],
           status |-> [c \in Clients |-> [total |-> 0, before |-> 0]],
           prev |-> NoStats, last |-> NoStats, lines |-> 0]
Watching == [NoSeen EXCEPT !.on = TRUE]

\* The bot before any command: BROKER is None (no BrokerClient made yet), no
\* task was ever created, the command handler is idle.  tasks holds every task
\* created so far: its position in _run_loop, whether cancel() was called on
\* it, and its retry delay; last is the call that returned last.
NoTask == 0
NoBot == [made |-> FALSE, _task |-> NoTask, _running |-> FALSE, _chat_ids |-> {},
          tasks |-> <<>>, handler |-> "idle", last |-> "none"]

\* Module globals, lines 58-70, and every thread before its first step.
InitBroker ==
    /\ pc = [t \in Threads |-> StartPc(t)]
    /\ ret = [t \in Broadcasters |-> IF t = LOOP THEN "loop_unlock" ELSE "cb_idle"]
    /\ clients_lock = NoThread
    /\ stats_lock = NoThread
    /\ interface_lock = NoThread
    /\ _clients = <<>>
    /\ sock = [c \in Clients |-> "unaccepted"]
    /\ peer = [c \in Clients |-> "absent"]
    /\ _total_packets = 0
    /\ _by_channel = <<>>
    /\ _interface = NoConn
    /\ opened = {}
    /\ lost = {}
    /\ subscribed = FALSE
    /\ _should_run = TRUE
    /\ hb_age = HEARTBEAT_TICKS
    /\ pr_age = PRIMING_TICKS
    /\ cb = [t \in Deliverers |-> NoCb]
    /\ bc = [t \in Broadcasters |-> NoBc]
    /\ snap = NoSnap
    /\ delivered = 0
    /\ done_total = 0
    /\ done_by = <<>>
    /\ history = {[total |-> 0, by_channel |-> <<>>]}
    /\ removals = [c \in Clients |-> 0]
    /\ crashed = {}
    /\ opens = 0
    /\ announced = 0
    /\ packet_lines = 0
    /\ since_hb = HEARTBEAT_TICKS
    /\ since_pr = PRIMING_TICKS
    /\ inbox = [c \in Clients |-> [sent |-> 0, read |-> 0]]
    /\ teardown = <<>>
    /\ bot = NoBot

Init ==
    /\ InitBroker
    /\ arg = PyNone
    /\ result = NoResult
    /\ seen = NoSeen

\* The same, with the clients' streams being recorded.
InitStream ==
    /\ InitBroker
    /\ arg = PyNone
    /\ result = NoResult
    /\ seen = Watching

\* ------------------------------------------------------------------ helpers
SeqToSet(q) == {q[n] : n \in DOMAIN q}

\* list.remove(x): the list without the first x (x is in the list)
RECURSIVE ListRemove(_, _)
ListRemove(q, x) ==
    IF q = <<>> THEN <<>>
    ELSE IF Head(q) = x THEN Tail(q)
    ELSE <<Head(q)>> \o ListRemove(Tail(q), x)

\* d[key] = d.get(key, 0) + 1 on a dict with integer keys (against d[key] = 1,
\* and against d = {key: d.get(key, 0) + 1})
CountAlone(d, key) == key :> ((IF key \in DOMAIN d THEN d[key] ELSE 0) + 1)
CountOnce(d, key) == [x \in (DOMAIN d) \cup {key} |-> IF x = key THEN 1 ELSE d[x]]
CountUp(d, key) ==
    [x \in (DOMAIN d) \cup {key} |->
        IF x = key THEN (IF key \in DOMAIN d THEN d[key] ELSE 0) + 1 ELSE d[x]]

\* History only: one more completed increment for integer channel c.
Tally(f, c) == IF c \in DOMAIN f THEN [f EXCEPT ![c] = @ + 1] ELSE f @@ (c :> 1)

\* The three "with <lock>:" entries: the lock can be taken when nobody holds it.
LockNotChecked == TRUE
ClientsLockFree == clients_lock = NoThread
StatsLockFree == stats_lock = NoThread
InterfaceLockFree == interface_lock = NoThread

Sat(a, d, cap) == IF a + d > cap THEN cap ELSE a + d

\* dict(_by_channel): a copy, against handing out the live dict itself
dict_alias(d) == [alias |-> TRUE, val |-> d]
dict_copy(d) == [alias |-> FALSE, val |-> d]
\* What a reader of such a dict sees now.
Deref(r) == IF r.alias THEN _by_channel ELSE r.val

\* The object as json.dumps reads it at the time of the call.
Realize(o) ==
    IF "stats" \in DOMAIN o
    THEN [o EXCEPT !.stats = [total |-> o.stats.total,
                              by_channel |-> Deref(o.stats.by_channel)]]
    ELSE o

Goto(t, label) == pc' = [pc EXCEPT ![t] = label]

\* The call _broadcast_json(o) by thread t, returning to label back.
CallBroadcast(t, o, back) ==
    /\ bc' = [bc EXCEPT ![t] = [NoBc EXCEPT !.obj = o]]
    /\ ret' = [ret EXCEPT ![t] = back]
    /\ Goto(t, "bc_dumps")

\* --------------------------------------------------------- _broadcast_json
\* line = _safe_json_dumps(obj)
BcDumps(t) ==
    /\ pc[t] = "bc_dumps"
    /\ bc' = [bc EXCEPT ![t].line = _safe_json_dumps(Realize(bc[t].obj))]
    /\ packet_lines' = IF bc[t].obj.type = "packet" THEN packet_lines + 1 ELSE packet_lines
    /\ announced' = IF bc[t].obj.type = "status" /\ bc[t].obj.msg = "connected"
                    THEN announced + 1 ELSE announced
    /\ seen' = IF seen.on /\ "stats" \in DOMAIN bc[t].obj
               THEN [seen EXCEPT !.prev = seen.last,
                                 !.last = Realize(bc[t].obj).stats,
                                 !.lines = IF @ < 2 THEN @ + 1 ELSE @]
               ELSE seen
    /\ Goto(t, "bc_lock")
    /\ UNCHANGED <<inbox, arg, result, teardown, bot, lockVars, regVars, statsVars, ifaceVars,
                   timeVars, cb, snap, ret,
                   delivered, done_total, done_by, history, removals, crashed,
                   opens, since_hb, since_pr>>

\* with _clients_lock:
BcLock(t) ==
    /\ pc[t] = "bc_lock"
    /\ ClientsLockFree
    /\ clients_lock' = t
    /\ bc' = [bc EXCEPT ![t].i = 0, ![t].drop = <<>>, ![t].start = _clients, ![t].ok = <<>>]
    /\ Goto(t, "bc_iter")
    /\ UNCHANGED <<auxVars, stats_lock, interface_lock, regVars, statsVars, ifaceVars, timeVars,
                   cb, snap, ret, histVars>>

\* sock.sendall(data) on socket s: what the call can do now.  A peer that
\* stopped reading (its buffers full) lets the call return nothing: it blocks.
SendOutcomes(s) ==
    IF sock[s] = "closed" THEN {"fail"}
    ELSE IF peer[s] = "reading" THEN {"ok"}
    ELSE IF peer[s] = "closed" THEN {"ok", "fail"}
    ELSE {}

\* for s in _clients: if not _safe_send_line(s, line): drop.append(s)
BcSend(t) ==
    /\ pc[t] = "bc_iter"
    /\ bc[t].i < Len(_clients)
    /\ LET s == _clients[bc[t].i + 1]
       IN  \E out \in SendOutcomes(s) :
              /\ bc' = [bc EXCEPT ![t].i = @ + 1,
                                  ![t].ok = IF out = "ok"
                                            THEN (s :> WireData(bc[t].line)) @@ @
                                            ELSE @,
                                  ![t].drop = IF out = "fail" THEN Append(@, s) ELSE @]
              /\ seen' = IF out # "ok" \/ ~seen.on THEN seen
                         ELSE IF bc[t].obj.type = "packet"
                         THEN [seen EXCEPT !.rx[s] = @ + 1]
                         ELSE IF "stats" \in DOMAIN bc[t].obj
                         THEN [seen EXCEPT !.status[s] =
                                   [total |-> bc[t].obj.stats.total, before |-> seen.rx[s]]]
                         ELSE seen
    /\ UNCHANGED <<inbox, arg, result, teardown, bot, pc, lockVars, regVars, statsVars, ifaceVars, timeVars, cb, snap, ret, histVars>>

\* for d in drop: try: _clients.remove(d); d.close()  except Exception: pass
PruneByCount(q, drop) == SubSeq(q, Len(drop) + 1, Len(q))
RECURSIVE PruneList(_, _)
PruneList(q, drop) ==
    IF drop = <<>> THEN q
    ELSE IF Head(drop) \in SeqToSet(q) THEN PruneList(ListRemove(q, Head(drop)), Tail(drop))
    ELSE PruneList(q, Tail(drop))

BcPrune(t) ==
    /\ pc[t] = "bc_iter"
    /\ bc[t].i >= Len(_clients)
    /\ _clients' = PruneList(_clients, bc[t].drop)
    /\ sock' = [c \in Clients |->
                  IF c \in SeqToSet(bc[t].drop) /\ c \in SeqToSet(_clients)
                  THEN "closed" ELSE sock[c]]
    /\ removals' = [c \in Clients |->
                      IF c \in SeqToSet(bc[t].drop) THEN removals[c] + 1 ELSE removals[c]]
    /\ Goto(t, "bc_unlock")
    /\ UNCHANGED <<auxVars, lockVars, peer, statsVars, ifaceVars, timeVars, frameVars,
                   delivered, done_total, done_by, history, crashed, obsVars>>

\* leaving "with _clients_lock", and the return to the caller
BcUnlock(t) ==
    /\ pc[t] = "bc_unlock"
    /\ clients_lock' = NoThread
    /\ bc' = [bc EXCEPT ![t] = NoBc]
    /\ cb' = IF t \in Deliverers THEN [cb EXCEPT ![t] = NoCb] ELSE cb
    /\ Goto(t, ret[t])
    /\ UNCHANGED <<auxVars, stats_lock, interface_lock, regVars, statsVars, ifaceVars, timeVars,
                   snap, ret, histVars>>

\* -------------------------------- _pubsub_callback / _inc_stats_from_packet
\* The upstream library calls the subscribed callback with a packet; lines
\* 243-246 tag it.
CbDeliverFrom(t, events) ==
    /\ pc[t] = "cb_idle"
    /\ subscribed
    /\ delivered < MaxEvents
    /\ \E p \in events :
          cb' = [cb EXCEPT ![t] = [received |-> p, packet |-> TagPacket(p),
                                   ch |-> PyNone, tmp |-> 0]]
    /\ delivered' = delivered + 1
    /\ Goto(t, "inc_lock")
    /\ UNCHANGED <<auxVars, lockVars, regVars, statsVars, ifaceVars, timeVars, bc, snap, ret,
                   done_total, done_by, history, removals, crashed, obsVars>>

CbDeliver(t) == CbDeliverFrom(t, Packets)

\* ch = pkt.get("meta", {}).get("channelIndex", ...); with _stats_lock:
IncLock(t) ==
    /\ pc[t] = "inc_lock"
    /\ StatsLockFree
    /\ stats_lock' = t
    /\ cb' = [cb EXCEPT ![t].ch = StatsChannel(cb[t].packet)]
    /\ Goto(t, "inc_load")
    /\ UNCHANGED <<auxVars, clients_lock, interface_lock, regVars, statsVars, ifaceVars, timeVars,
                   bc, snap, ret, histVars>>

\* _total_packets += 1 is a load ...
IncLoad(t) ==
    /\ pc[t] = "inc_load"
    /\ cb' = [cb EXCEPT ![t].tmp = _total_packets]
    /\ Goto(t, "inc_store")
    /\ UNCHANGED <<auxVars, lockVars, regVars, statsVars, ifaceVars, timeVars, bc, snap, ret, histVars>>

\* ... and a store
IncStore(t) ==
    /\ pc[t] = "inc_store"
    /\ _total_packets' = cb[t].tmp + 1
    /\ Goto(t, IF IsInt(cb[t].ch) THEN "inc_ch" ELSE "inc_unlock")
    /\ UNCHANGED <<auxVars, lockVars, regVars, _by_channel, ifaceVars, timeVars, frameVars, histVars>>

\* if isinstance(ch, int): _by_channel[ch] = _by_channel.get(ch, 0) + 1
IncChannel(t) ==
    /\ pc[t] = "inc_ch"
    /\ _by_channel' = CountUp(_by_channel, KeyOf(cb[t].ch))
    /\ Goto(t, "inc_unlock")
    /\ UNCHANGED <<auxVars, lockVars, regVars, _total_packets, ifaceVars, timeVars, frameVars, histVars>>

\* The holder of _stats_lock once _inc_stats_from_packet has returned.
StatsLockKept(t) == t
StatsLockAfterInc(t) == NoThread

\* The object line 253 hands to _broadcast_json (against a status object).
PacketAsStatus(p) == [type |-> "status", msg |-> "rx", packet |-> p]
PacketLine(p) == [type |-> "packet", packet |-> p]

\* leaving "with _stats_lock"; then _broadcast_json({"type": "packet", ...})
IncUnlock(t) ==
    /\ pc[t] = "inc_unlock"
    /\ stats_lock' = StatsLockAfterInc(t)
    /\ done_total' = done_total + 1
    /\ done_by' = LET ch == _extract_channel(cb[t].received)
                  IN  IF ch.k = "int" THEN Tally(done_by, ch.i)
                      ELSE IF ch.k = "bool" THEN Tally(done_by, IF ch.b THEN 1 ELSE 0)
                      ELSE done_by
    /\ history' = history \cup {[total |-> _total_packets, by_channel |-> _by_channel]}
    /\ CallBroadcast(t, PacketLine(cb[t].packet), "cb_idle")
    /\ UNCHANGED <<auxVars, clients_lock, interface_lock, regVars, statsVars, ifaceVars, timeVars,
                   cb, snap, delivered, removals, crashed, obsVars>>

\* except Exception as e: (a print when verbose) and the callback returns to
\* its caller (against the exception leaving the callback and ending the
\* delivering thread)
ExceptLeaves == "cb_dead"
CallbackExcept == "cb_idle"

\* Events that are not mappings: line 244 or 245 raises TypeError.
Malformed == {PyNone, PyStr("x")}
\* An event whose decoded is a string: in a verbose run _packet_summary raises
\* AttributeError at dec.get (line 173).
PktRawDecoded == PyDict("decoded" :> PyStr("raw"))
FaultPackets == Packets \cup {PktRawDecoded}
SummaryRaises(pkt) ==
    LET dec == DictGet(pkt, "decoded", EmptyDict)
    IN  ~IsDict(dec) /\ dec.k = "str"

\* The callback on an event that is not a mapping: the tagging raises before
\* anything is counted or broadcast, and the except clause ends the call.
CbDeliverMalformed(t) ==
    /\ pc[t] = "cb_idle"
    /\ subscribed
    /\ delivered < MaxEvents
    /\ \E p \in Malformed :
          cb' = [cb EXCEPT ![t] = [received |-> p, packet |-> p, ch |-> PyNone, tmp |-> 0]]
    /\ delivered' = delivered + 1
    /\ Goto(t, CallbackExcept)
    /\ crashed' = IF CallbackExcept = "cb_idle" THEN crashed ELSE crashed \cup {t}
    /\ UNCHANGED <<auxVars, lockVars, regVars, statsVars, ifaceVars, timeVars, bc, snap, ret,
                   done_total, done_by, history, removals, obsVars>>

\* A verbose run: _inc_stats_from_packet has returned, print(_packet_summary(
\* packet)) raises, and the except clause ends the call before line 253.
CbSummaryRaise(t) ==
    /\ pc[t] = "inc_unlock"
    /\ SummaryRaises(cb[t].packet)
    /\ stats_lock' = StatsLockAfterInc(t)
    /\ done_total' = done_total + 1
    /\ history' = history \cup {[total |-> _total_packets, by_channel |-> _by_channel]}
    /\ Goto(t, CallbackExcept)
    /\ crashed' = IF CallbackExcept = "cb_idle" THEN crashed ELSE crashed \cup {t}
    /\ UNCHANGED <<auxVars, clients_lock, interface_lock, regVars, statsVars, ifaceVars,
                   timeVars, frameVars, delivered, done_by, removals, obsVars>>

\* --------------------------------------------------------------- _get_stats
\* with _stats_lock:
GsLock ==
    /\ pc[LOOP] = "gs_lock"
    /\ StatsLockFree
    /\ stats_lock' = LOOP
    /\ Goto(LOOP, "gs_total")
    /\ UNCHANGED <<auxVars, clients_lock, interface_lock, regVars, statsVars, ifaceVars, timeVars,
                   frameVars, histVars>>

\* "total": _total_packets
GsTotal ==
    /\ pc[LOOP] = "gs_total"
    /\ snap' = [snap EXCEPT !.total = _total_packets]
    /\ Goto(LOOP, "gs_copy")
    /\ UNCHANGED <<auxVars, lockVars, regVars, statsVars, ifaceVars, timeVars, cb, bc, ret, histVars>>

\* "by_channel": dict(_by_channel)
GsCopy ==
    /\ pc[LOOP] = "gs_copy"
    /\ snap' = [snap EXCEPT !.by_channel = dict_copy(_by_channel)]
    /\ Goto(LOOP, "gs_unlock")
    /\ UNCHANGED <<auxVars, lockVars, regVars, statsVars, ifaceVars, timeVars, cb, bc, ret, histVars>>

\* {"type": "status", "msg": <heartbeat or priming>, "host": host,
\*  "stats": _get_stats()}, lines 268 and 290 (against leaving the stats out)
StatusBare(msg, snapshot) == [type |-> "status", msg |-> msg, host |-> "host"]
StatusWithStats(msg, snapshot) ==
    [type |-> "status", msg |-> msg, host |-> "host", stats |-> snapshot]

\* return: the snapshot becomes the "stats" of the status object being built,
\* which is passed to _broadcast_json
GsUnlock ==
    /\ pc[LOOP] = "gs_unlock"
    /\ stats_lock' = NoThread
    /\ bc' = [bc EXCEPT ![LOOP].obj = StatusWithStats(bc[LOOP].obj.msg, snap)]
    /\ snap' = NoSnap
    /\ Goto(LOOP, "bc_dumps")
    /\ UNCHANGED <<auxVars, clients_lock, interface_lock, regVars, statsVars, ifaceVars, timeVars,
                   cb, ret, histVars>>

\* --------------------------------------------------- _connect_interface_loop
\* while _should_run:
LoopWhile ==
    /\ pc[LOOP] = "loop_while"
    /\ Goto(LOOP, IF _should_run THEN "loop_lock" ELSE "loop_exit")
    /\ UNCHANGED <<auxVars, lockVars, regVars, statsVars, ifaceVars, timeVars, frameVars, histVars>>

\* with _interface_lock:
LoopLock ==
    /\ pc[LOOP] = "loop_lock"
    /\ InterfaceLockFree
    /\ interface_lock' = LOOP
    /\ Goto(LOOP, "loop_if")
    /\ UNCHANGED <<auxVars, clients_lock, stats_lock, regVars, statsVars, ifaceVars, timeVars,
                   frameVars, histVars>>

\* if _interface is None:
ConnectAlways == TRUE
NeedConnect == _interface = NoConn

LoopIfNone ==
    /\ pc[LOOP] = "loop_if"
    /\ Goto(LOOP, IF NeedConnect THEN "loop_connect" ELSE "loop_unlock")
    /\ UNCHANGED <<auxVars, lockVars, regVars, statsVars, ifaceVars, timeVars, frameVars, histVars>>

\* A handle for a new TCPInterface object.
FreshConn == CHOOSE n \in 1..(Cardinality(opened) + 1) : n \notin opened

\* Where the loop goes on once the constructor has returned: lines 283-284
\* (against leaving the with block at once).
SkipAnnounce == "loop_unlock"
AfterConnect == "loop_subscribe"

\* _interface = TCPInterface(hostname=host) returns
LoopConnectOk ==
    /\ pc[LOOP] = "loop_connect"
    /\ _interface' = FreshConn
    /\ opened' = opened \cup {FreshConn}
    /\ opens' = opens + 1
    /\ Goto(LOOP, AfterConnect)
    /\ UNCHANGED <<auxVars, lockVars, regVars, statsVars, lost, subscribed, _should_run, timeVars,
                   frameVars, delivered, done_total, done_by, history, removals, crashed,
                   announced, packet_lines, since_hb, since_pr>>

\* TCPInterface(...) raises: the with block is left and the matching except
\* branch broadcasts the error (MeshInterfaceError or any other Exception)
ErrorKinds == {"connect_error", "unexpected_error"}

LoopConnectFail ==
    /\ pc[LOOP] = "loop_connect"
    /\ interface_lock' = NoThread
    /\ \E kind \in ErrorKinds :
          CallBroadcast(LOOP, [type |-> "status", msg |-> kind, text |-> "e"], "loop_backoff")
    /\ UNCHANGED <<auxVars, clients_lock, stats_lock, regVars, statsVars, ifaceVars, timeVars,
                   cb, snap, histVars>>

\* pub.subscribe(...); _broadcast_json({"type": "status", "msg": "connected", ...})
LoopSubscribe ==
    /\ pc[LOOP] = "loop_subscribe"
    /\ subscribed' = TRUE
    /\ CallBroadcast(LOOP, [type |-> "status", msg |-> "connected", host |-> "host"],
                     "loop_unlock")
    /\ UNCHANGED <<auxVars, lockVars, regVars, statsVars, _interface, opened, lost, _should_run,
                   timeVars, cb, snap, histVars>>

\* leaving "with _interface_lock"
LoopUnlock ==
    /\ pc[LOOP] = "loop_unlock"
    /\ interface_lock' = NoThread
    /\ Goto(LOOP, "loop_hb")
    /\ UNCHANGED <<auxVars, clients_lock, stats_lock, regVars, statsVars, ifaceVars, timeVars,
                   frameVars, histVars>>

\* if now - last_hb >= 5.0
HeartbeatDue == hb_age >= HEARTBEAT_TICKS

\* now = time.time(); if now - last_hb >= 5.0: ... "stats": _get_stats()
LoopHeartbeat ==
    /\ pc[LOOP] = "loop_hb"
    /\ IF HeartbeatDue
       THEN /\ bc' = [bc EXCEPT ![LOOP] = [NoBc EXCEPT !.obj = [msg |-> "heartbeat"]]]
            /\ ret' = [ret EXCEPT ![LOOP] = "loop_hb_done"]
            /\ since_hb' = 0
            /\ Goto(LOOP, "gs_lock")
       ELSE /\ Goto(LOOP, "loop_priming")
            /\ UNCHANGED <<bc, ret, since_hb>>
    /\ UNCHANGED <<auxVars, lockVars, regVars, statsVars, ifaceVars, timeVars, cb, snap,
                   delivered, done_total, done_by, history, removals, crashed,
                   opens, announced, packet_lines, since_pr>>

\* last_hb = now
LoopHbDone ==
    /\ pc[LOOP] = "loop_hb_done"
    /\ hb_age' = 0
    /\ Goto(LOOP, "loop_priming")
    /\ UNCHANGED <<auxVars, lockVars, regVars, statsVars, ifaceVars, pr_age, frameVars, histVars>>

\* _priming_tick(host)
LoopPriming ==
    /\ pc[LOOP] = "loop_priming"
    /\ IF pr_age < PRIMING_TICKS
       THEN /\ Goto(LOOP, "loop_sleep")
            /\ UNCHANGED <<bc, ret, pr_age, since_pr>>
       ELSE /\ pr_age' = 0
            /\ since_pr' = 0
            /\ bc' = [bc EXCEPT ![LOOP] = [NoBc EXCEPT !.obj = [msg |-> "priming"]]]
            /\ ret' = [ret EXCEPT ![LOOP] = "loop_sleep"]
            /\ Goto(LOOP, "gs_lock")
    /\ UNCHANGED <<auxVars, lockVars, regVars, statsVars, ifaceVars, hb_age, cb, snap,
                   delivered, done_total, done_by, history, removals, crashed,
                   opens, announced, packet_lines, since_hb>>

\* time.sleep(0.5)
LoopSleep ==
    /\ pc[LOOP] = "loop_sleep"
    /\ hb_age' = Sat(hb_age, POLL_TICKS, HEARTBEAT_TICKS)
    /\ pr_age' = Sat(pr_age, POLL_TICKS, PRIMING_TICKS)
    /\ since_hb' = Sat(since_hb, POLL_TICKS, HEARTBEAT_TICKS)
    /\ since_pr' = Sat(since_pr, POLL_TICKS, PRIMING_TICKS)
    /\ Goto(LOOP, "loop_while")
    /\ UNCHANGED <<auxVars, lockVars, regVars, statsVars, ifaceVars, frameVars,
                   delivered, done_total, done_by, history, removals, crashed,
                   opens, announced, packet_lines>>

\* time.sleep(3.0)
LoopBackoff ==
    /\ pc[LOOP] = "loop_backoff"
    /\ hb_age' = Sat(hb_age, BACKOFF_TICKS, HEARTBEAT_TICKS)
    /\ pr_age' = Sat(pr_age, BACKOFF_TICKS, PRIMING_TICKS)
    /\ since_hb' = Sat(since_hb, BACKOFF_TICKS, HEARTBEAT_TICKS)
    /\ since_pr' = Sat(since_pr, BACKOFF_TICKS, PRIMING_TICKS)
    /\ Goto(LOOP, "loop_while")
    /\ UNCHANGED <<auxVars, lockVars, regVars, statsVars, ifaceVars, frameVars,
                   delivered, done_total, done_by, history, removals, crashed,
                   opens, announced, packet_lines>>

\* ------------------------------------------------- BrokerTCPHandler.handle
\* The server accepts a connection and starts its handler thread.
HAccept(c) ==
    /\ pc[c] = "h_listen"
    /\ sock' = [sock EXCEPT ![c] = "open"]
    /\ peer' = [peer EXCEPT ![c] = "reading"]
    /\ Goto(c, "h_register")
    /\ UNCHANGED <<auxVars, lockVars, _clients, statsVars, ifaceVars, timeVars, frameVars, histVars>>

\* with _clients_lock: _clients.append(sock)
HRegister(c) ==
    /\ pc[c] = "h_register"
    /\ ClientsLockFree
    /\ clients_lock' = c
    /\ _clients' = Append(_clients, c)
    /\ Goto(c, "h_reg_unlock")
    /\ UNCHANGED <<auxVars, stats_lock, interface_lock, sock, peer, statsVars, ifaceVars, timeVars,
                   frameVars, histVars>>

HRegUnlock(c) ==
    /\ pc[c] = "h_reg_unlock"
    /\ clients_lock' = NoThread
    /\ Goto(c, "h_ack")
    /\ UNCHANGED <<auxVars, stats_lock, interface_lock, regVars, statsVars, ifaceVars, timeVars,
                   frameVars, histVars>>

\* _safe_send_line(sock, <broker_info line>): the result is not looked at
HAck(c) ==
    /\ pc[c] = "h_ack"
    /\ SendOutcomes(c) # {}
    /\ Goto(c, "h_recv")
    /\ UNCHANGED <<auxVars, lockVars, regVars, statsVars, ifaceVars, timeVars, frameVars, histVars>>

\* Bytes the client has sent that no recv has returned yet.
Pending(c) == inbox[c].sent - inbox[c].read

\* sock.recv(1024) returns b"" (the peer closed and nothing is left to read)
\* or raises (the socket was closed under the handler): the drain loop ends
HRecvEnd(c) ==
    /\ pc[c] = "h_recv"
    /\ (peer[c] = "closed" /\ Pending(c) = 0) \/ sock[c] = "closed"
    /\ Goto(c, "h_unreg")
    /\ UNCHANGED <<auxVars, lockVars, regVars, statsVars, ifaceVars, timeVars, frameVars, histVars>>

\* if not data: break, on the n bytes a recv returned (against leaving the
\* loop on any read)
AnyRead(n) == TRUE
NoData(n) == n = 0

\* data = sock.recv(1024) returns n > 0 of the pending bytes; they are dropped
\* and the loop reads again.
HRecvData(c) ==
    /\ pc[c] = "h_recv"
    /\ sock[c] = "open"
    /\ \E n \in 1..Pending(c) :
           /\ inbox' = [inbox EXCEPT ![c].read = @ + n]
           /\ Goto(c, IF NoData(n) THEN "h_unreg" ELSE "h_recv")
    /\ UNCHANGED <<arg, result, teardown, seen, bot, lockVars, regVars, statsVars, ifaceVars,
                   timeVars, frameVars, histVars>>

\* try: _clients.remove(sock)  except ValueError: pass
\* The result: the list afterwards, and whether an exception leaves the block.
RemoveUncaught(q, c) ==
    IF c \in SeqToSet(q) THEN [list |-> ListRemove(q, c), raised |-> FALSE]
    ELSE [list |-> q, raised |-> TRUE]
RemoveIfPresent(q, c) ==
    IF c \in SeqToSet(q) THEN [list |-> ListRemove(q, c), raised |-> FALSE]
    ELSE [list |-> q, raised |-> FALSE]

\* finally: with _clients_lock: <remove>
HUnregister(c) ==
    /\ pc[c] = "h_unreg"
    /\ ClientsLockFree
    /\ LET r == RemoveIfPresent(_clients, c)
       IN  /\ _clients' = r.list
           /\ IF r.raised
              THEN /\ clients_lock' = NoThread
                   /\ crashed' = crashed \cup {c}
                   /\ Goto(c, "h_dead")
              ELSE /\ clients_lock' = c
                   /\ crashed' = crashed
                   /\ Goto(c, "h_unreg_unlock")
    /\ removals' = [removals EXCEPT ![c] = @ + 1]
    /\ UNCHANGED <<auxVars, stats_lock, interface_lock, sock, peer, statsVars, ifaceVars, timeVars,
                   frameVars, delivered, done_total, done_by, history, obsVars>>

HUnregUnlock(c) ==
    /\ pc[c] = "h_unreg_unlock"
    /\ clients_lock' = NoThread
    /\ Goto(c, "h_close")
    /\ UNCHANGED <<auxVars, stats_lock, interface_lock, regVars, statsVars, ifaceVars, timeVars,
                   frameVars, histVars>>

\* sock.close()
HClose(c) ==
    /\ pc[c] = "h_close"
    /\ sock' = [sock EXCEPT ![c] = "closed"]
    /\ Goto(c, "h_done")
    /\ UNCHANGED <<auxVars, lockVars, _clients, peer, statsVars, ifaceVars, timeVars, frameVars,
                   histVars>>

\* -------------------------------------------------------------- the clients
\* The remote end closes its socket.
ClientClose(c) ==
    /\ peer[c] \in {"reading", "stalled"}
    /\ peer' = [peer EXCEPT ![c] = "closed"]
    /\ UNCHANGED <<auxVars, pc, lockVars, _clients, sock, statsVars, ifaceVars, timeVars, frameVars,
                   histVars>>

\* The remote end writes to its socket (the Telegram bot sends "SUB <channel>"
\* after connecting); what the bytes are is never looked at by the broker.
ClientSend(c) ==
    /\ peer[c] \in {"reading", "stalled"}
    /\ inbox[c].sent < MaxInbound
    /\ inbox' = [inbox EXCEPT ![c].sent = @ + 1]
    /\ UNCHANGED <<arg, result, teardown, seen, bot, pc, lockVars, regVars, statsVars, ifaceVars,
                   timeVars, frameVars, histVars>>

\* The remote end stops reading and its buffers are full.
ClientStall(c) ==
    /\ peer[c] = "reading"
    /\ peer' = [peer EXCEPT ![c] = "stalled"]
    /\ UNCHANGED <<auxVars, pc, lockVars, _clients, sock, statsVars, ifaceVars, timeVars, frameVars,
                   histVars>>

\* ------------------------------------------------------------ the upstream
\* The link of an open TCPInterface to the node breaks (the node reboots, the
\* network drops).  The library's reader thread ends; nothing is raised into
\* the broker's threads, which never call into the interface object.
UpstreamFail ==
    /\ \E n \in opened \ lost : lost' = lost \cup {n}
    /\ UNCHANGED <<auxVars, pc, lockVars, regVars, statsVars, _interface, opened, subscribed,
                   _should_run, timeVars, frameVars, histVars>>

\* ------------------------------------------------- main / _close_interface
\* KeyboardInterrupt; finally: _should_run = False
MainShutdown ==
    /\ pc[MAIN] = "m_running"
    /\ _should_run' = FALSE
    /\ Goto(MAIN, "m_lock")
    /\ UNCHANGED <<auxVars, lockVars, regVars, statsVars, _interface, opened, lost, subscribed,
                   timeVars, frameVars, histVars>>

\* _close_interface: with _interface_lock: if _interface:
MainLock ==
    /\ pc[MAIN] = "m_lock"
    /\ InterfaceLockFree
    /\ interface_lock' = MAIN
    /\ Goto(MAIN, IF _interface # NoConn THEN "m_unsub" ELSE "m_unlock")
    /\ UNCHANGED <<auxVars, clients_lock, stats_lock, regVars, statsVars, ifaceVars, timeVars,
                   frameVars, histVars>>

\* pub.unsubscribe(_pubsub_callback, "meshtastic.receive")
MainUnsubscribe ==
    /\ pc[MAIN] = "m_unsub"
    /\ subscribed' = FALSE
    /\ teardown' = Append(teardown, "unsubscribe")
    /\ Goto(MAIN, "m_closeconn")
    /\ UNCHANGED <<inbox, arg, result, seen, bot, lockVars, regVars, statsVars, _interface, opened, lost, _should_run,
                   timeVars, frameVars, histVars>>

\* pub.unsubscribe raises; except Exception: pass.  The callback stays
\* subscribed.
MainUnsubscribeRaises ==
    /\ pc[MAIN] = "m_unsub"
    /\ teardown' = Append(teardown, "unsubscribe_raised")
    /\ Goto(MAIN, "m_closeconn")
    /\ UNCHANGED <<inbox, arg, result, seen, bot, lockVars, regVars, statsVars, ifaceVars, timeVars,
                   frameVars, histVars>>

\* _interface.close()
MainCloseConn ==
    /\ pc[MAIN] = "m_closeconn"
    /\ opened' = opened \ {_interface}
    /\ lost' = lost \ {_interface}
    /\ teardown' = Append(teardown, "close")
    /\ Goto(MAIN, "m_setnone")
    /\ UNCHANGED <<inbox, arg, result, seen, bot, lockVars, regVars, statsVars, _interface, subscribed, _should_run,
                   timeVars, frameVars, histVars>>

\* except Exception: pass, after which line 320 runs (against the exception
\* leaving the with block)
CloseEscapes == "m_unlock"
CloseExcept == "m_setnone"

\* _interface.close() raises; except Exception: pass.  The connection may or
\* may not have been closed by then.
MainCloseRaises ==
    /\ pc[MAIN] = "m_closeconn"
    /\ \E closed \in BOOLEAN :
          /\ opened' = IF closed THEN opened \ {_interface} ELSE opened
          /\ lost' = IF closed THEN lost \ {_interface} ELSE lost
    /\ teardown' = Append(teardown, "close_raised")
    /\ Goto(MAIN, CloseExcept)
    /\ UNCHANGED <<inbox, arg, result, seen, bot, lockVars, regVars, statsVars, _interface, subscribed,
                   _should_run, timeVars, frameVars, histVars>>

\* _interface = None
MainSetNone ==
    /\ pc[MAIN] = "m_setnone"
    /\ _interface' = NoConn
    /\ teardown' = Append(teardown, "clear")
    /\ Goto(MAIN, "m_unlock")
    /\ UNCHANGED <<inbox, arg, result, seen, bot, lockVars, regVars, statsVars, opened, lost, subscribed, _should_run,
                   timeVars, frameVars, histVars>>

MainUnlock ==
    /\ pc[MAIN] = "m_unlock"
    /\ interface_lock' = NoThread
    /\ Goto(MAIN, "m_done")
    /\ UNCHANGED <<auxVars, clients_lock, stats_lock, regVars, statsVars, ifaceVars, timeVars,
                   frameVars, histVars>>

\* ----------------------------------------------------------- specifications
\* One pass of the loop body and its retries after a failed connect.
LoopPass ==
    \/ LoopWhile \/ LoopLock \/ LoopIfNone \/ LoopConnectOk \/ LoopConnectFail
    \/ LoopSubscribe \/ LoopUnlock \/ LoopHeartbeat \/ LoopHbDone \/ LoopPriming
    \/ LoopBackoff
    \/ GsLock \/ GsTotal \/ GsCopy \/ GsUnlock

CallbackBody(t) ==
    IncLock(t) \/ IncLoad(t) \/ IncStore(t) \/ IncChannel(t) \/ IncUnlock(t)
Callback(t) == CbDeliver(t) \/ CallbackBody(t)

\* _broadcast_json with nobody registered, and with clients
BroadcastEmpty(t) == BcDumps(t) \/ BcLock(t) \/ BcPrune(t) \/ BcUnlock(t)
Broadcast(t) == BroadcastEmpty(t) \/ BcSend(t)

Handler(c) ==
    \/ HAccept(c) \/ HRegister(c) \/ HRegUnlock(c) \/ HAck(c) \/ HRecvEnd(c)
    \/ HUnregister(c) \/ HUnregUnlock(c) \/ HClose(c)

Main ==
    \/ MainShutdown \/ MainLock \/ MainUnsubscribe \/ MainCloseConn \/ MainSetNone
    \/ MainUnlock

\* The whole broker.
Next ==
    \/ LoopPass \/ LoopSleep
    \/ \E t \in Deliverers : Callback(t)
    \/ \E t \in Broadcasters : Broadcast(t)
    \/ \E c \in Clients : Handler(c) \/ ClientClose(c) \/ ClientStall(c)
    \/ Main
Spec == Init /\ [][Next]_vars

\* The stats counters: the upstream callbacks of two delivering threads and the
\* snapshots of the loop's first pass, no client connected.
NextStats ==
    \/ LoopPass
    \/ \E t \in Deliverers : Callback(t)
    \/ \E t \in Broadcasters : BroadcastEmpty(t)
SpecStats == Init /\ [][NextStats]_vars
SpecStatsStream == InitStream /\ [][NextStats]_vars

\* The registry: the loop's first pass and one delivering thread broadcast
\* while two clients connect, are served and go away.
NextRegistry ==
    \/ LoopPass
    \/ (delivered < MaxRegistryEvents /\ CbDeliver("d1"))
    \/ CallbackBody("d1")
    \/ \E t \in {LOOP, "d1"} : Broadcast(t)
    \/ \E c \in Clients : Handler(c) \/ ClientClose(c)
SpecRegistry == Init /\ [][NextRegistry]_vars

\* The three locks: every kind of thread, the loop's first pass against
\* shutdown, one delivering thread and one client.
NextLocks ==
    \/ LoopPass
    \/ Main
    \/ (delivered < MaxRegistryEvents /\ CbDeliver("d1"))
    \/ CallbackBody("d1")
    \/ \E t \in {LOOP, "d1"} : Broadcast(t)
    \/ Handler("c1") \/ ClientClose("c1")
SpecLocks == Init /\ [][NextLocks]_vars

\* The upstream handle: the loop running on, poll after poll, against
\* shutdown, with one client.
NextIngest ==
    \/ LoopPass \/ LoopSleep
    \/ Main
    \/ Broadcast(LOOP)
    \/ Handler("c1") \/ ClientClose("c1")
SpecIngest == Init /\ [][NextIngest]_vars

\* The registry again, where a client may also stop reading for good, and
\* every thread that can take a step again and again eventually takes one
\* (no thread starves at a lock that keeps being released).
NextHung ==
    \/ NextRegistry
    \/ \E c \in Clients : ClientStall(c)
FairHung ==
    /\ Init /\ [][NextHung]_vars
    /\ SF_vars(LoopPass \/ Broadcast(LOOP))
    /\ SF_vars(CallbackBody("d1") \/ Broadcast("d1"))
    /\ \A c \in Clients : SF_vars(Handler(c))

\* The loop running on with one client that may stop reading, under the same
\* fairness.
NextRetry ==
    \/ NextIngest
    \/ ClientStall("c1")
FairRetry ==
    /\ Init /\ [][NextRetry]_vars
    /\ SF_vars(LoopPass \/ LoopSleep \/ Broadcast(LOOP))
    /\ SF_vars(MainLock \/ MainUnsubscribe \/ MainCloseConn \/ MainSetNone \/ MainUnlock)
    /\ SF_vars(Handler("c1"))

\* The three locks again, on one kind of event, where every write and every
\* connect returns and every thread that can take a step again and again
\* eventually takes one.
NextWait ==
    \/ LoopPass
    \/ Main
    \/ (delivered < MaxRegistryEvents /\ CbDeliverFrom("d1", {PktHeader0}))
    \/ CallbackBody("d1")
    \/ \E t \in {LOOP, "d1"} : Broadcast(t)
    \/ Handler("c1") \/ ClientClose("c1")
FairWait ==
    /\ Init /\ [][NextWait]_vars
    /\ SF_vars(LoopPass \/ Broadcast(LOOP))
    /\ SF_vars(MainLock \/ MainUnsubscribe \/ MainCloseConn \/ MainSetNone \/ MainUnlock)
    /\ SF_vars(CallbackBody("d1") \/ Broadcast("d1"))
    /\ SF_vars(Handler("c1"))

\* The callback on events that come with a meta of their own: the loop's first
\* pass, one delivering thread and one client.
NextTag ==
    \/ LoopPass
    \/ (delivered < MaxRegistryEvents /\ CbDeliverFrom("d1", TaggedPackets))
    \/ CallbackBody("d1")
    \/ \E t \in {LOOP, "d1"} : Broadcast(t)
    \/ Handler("c1") \/ ClientClose("c1")
SpecTag == Init /\ [][NextTag]_vars
SpecTagStream == InitStream /\ [][NextTag]_vars

\* The upstream handle where the link of an open connection may break, with
\* the loop running on against shutdown and one client.
NextLink ==
    \/ NextIngest
    \/ UpstreamFail
SpecLink == Init /\ [][NextLink]_vars
FairLink ==
    /\ SpecLink
    /\ SF_vars(LoopPass \/ LoopSleep \/ Broadcast(LOOP))
    /\ SF_vars(MainLock \/ MainUnsubscribe \/ MainCloseConn \/ MainSetNone \/ MainUnlock)
    /\ SF_vars(Handler("c1"))

\* The drain loop: the loop's first pass and one delivering thread broadcast
\* to two clients; the first one also sends bytes to the broker and may close.
NextDrain ==
    \/ LoopPass
    \/ (delivered < MaxRegistryEvents /\ CbDeliver("d1"))
    \/ CallbackBody("d1")
    \/ \E t \in {LOOP, "d1"} : Broadcast(t)
    \/ \E c \in Clients : Handler(c)
    \/ ClientClose("c1")
    \/ ClientSend("c1") \/ HRecvData("c1")
SpecDrain == Init /\ [][NextDrain]_vars

\* Teardown where pub.unsubscribe and close() may raise, against the loop's
\* first pass, nobody connected.
NextTeardown ==
    \/ LoopPass
    \/ Main \/ MainUnsubscribeRaises \/ MainCloseRaises
    \/ BroadcastEmpty(LOOP)
SpecTeardown == Init /\ [][NextTeardown]_vars

\* The callback where a step may raise: the loop's first pass, one delivering
\* thread (a verbose run for the event whose summary raises) and one client.
NextFault ==
    \/ LoopPass
    \/ CbDeliverFrom("d1", FaultPackets) \/ CbDeliverMalformed("d1")
    \/ CallbackBody("d1") \/ CbSummaryRaise("d1")
    \/ \E t \in {LOOP, "d1"} : Broadcast(t)
    \/ Handler("c1") \/ ClientClose("c1")
SpecFault == Init /\ [][NextFault]_vars

\* ------------------------------------------- _sanitize, _safe_json_dumps
\* More Python values: floats (by their text), bytes (a sequence of 0..255),
\* strings given character by character, lists, tuples and sets, objects with
\* a __dict__, protobuf messages, values json cannot encode and that have no
\* __dict__ (a complex number), and a list that contains itself.
PyFloat(x) == [k |-> "float", f |-> x]
PyBytes(q) == [k |-> "bytes", bytes |-> q]
PyChars(q) == [k |-> "str", chars |-> q]
PySeq(kind, q) == [k |-> kind, e |-> q]
PyObj(attrs) == [k |-> "object", vars |-> attrs]
PyProto(f, fails) == [k |-> "proto", fields |-> f, bad |-> fails]
PyOpaque == [k |-> "opaque"]
PyCycle == [k |-> "cycle"]

\* An exception on its way out of a call.
Raise(e) == [k |-> "raise", exc |-> e]
Raised(v) == v.k = "raise"

\* bytes.hex(): two lowercase digits per byte, high nibble first (against
\* uppercase digits)
UpperHexDigits ==
    <<"0", "1", "2", "3", "4", "5", "6", "7", "8", "9", "A", "B", "C", "D", "E", "F">>
HexDigits ==
    <<"0", "1", "2", "3", "4", "5", "6", "7", "8", "9", "a", "b", "c", "d", "e", "f">>
RECURSIVE hex(_)
hex(q) ==
    IF q = <<>> THEN <<>>
    ELSE <<HexDigits[(Head(q) \div 16) + 1], HexDigits[(Head(q) % 16) + 1]>> \o hex(Tail(q))

\* math.isnan(obj) or math.isinf(obj) (against math.isnan(obj) alone)
OnlyNaN(x) == x = "nan"
NonFinite(x) == x \in {"nan", "inf", "-inf"}

\* _sanitize(obj), lines 74-103.  The keys of the dicts here are strings,
\* which str(_sanitize(k)) gives back as they are.
RECURSIVE _sanitize(_)
_sanitize(v) ==
    CASE v.k = "bytes" -> PyChars(hex(v.bytes))
      [] v.k = "proto" ->
            IF v.bad THEN PyDict("_proto_repr" :> PyStr("repr")) ELSE _sanitize(v.fields)
      [] v.k = "dict" ->
            LET kids == [key \in DOMAIN v.d |-> _sanitize(v.d[key])]
            IN  IF \E key \in DOMAIN kids : Raised(kids[key])
                THEN Raise("RecursionError") ELSE PyDict(kids)
      [] v.k \in {"list", "tuple", "set"} ->
            LET kids == [n \in DOMAIN v.e |-> _sanitize(v.e[n])]
            IN  IF \E n \in DOMAIN kids : Raised(kids[n])
                THEN Raise("RecursionError") ELSE PySeq("list", kids)
      [] v.k = "float" -> IF NonFinite(v.f) THEN PyNone ELSE v
      [] v.k = "object" ->
            LET inner == _sanitize(v.vars)
            IN  IF Raised(inner) THEN PyStr("repr") ELSE inner
      [] v.k = "cycle" -> Raise("RecursionError")
      [] OTHER -> v

\* JSON text, by its syntax tree: null, a scalar (number, string, true or
\* false) written from a Python value, an array, an object, or one of the bare
\* words NaN, Infinity and -Infinity, which are not JSON.
JNull == [j |-> "null"]
JScalar(v) == [j |-> "scalar", of |-> v]
JBare(v) == [j |-> "bare", of |-> v]
JArray(q) == [j |-> "array", e |-> q]
JObject(f) == [j |-> "object", d |-> f]

\* json.dumps(v, ensure_ascii=False, separators=(",", ":")): allow_nan is left
\* at its default, and a value without an encoding raises TypeError.
RECURSIVE json_dumps(_)
json_dumps(v) ==
    CASE v.k = "none" -> JNull
      [] v.k \in {"bool", "int", "str"} -> JScalar(v)
      [] v.k = "float" -> IF v.f \in {"nan", "inf", "-inf"} THEN JBare(v) ELSE JScalar(v)
      [] v.k \in {"list", "tuple"} ->
            LET kids == [n \in DOMAIN v.e |-> json_dumps(v.e[n])]
            IN  IF \E n \in DOMAIN kids : kids[n].j = "raise"
                THEN [j |-> "raise", exc |-> "TypeError"] ELSE JArray(kids)
      [] v.k = "dict" ->
            LET kids == [key \in DOMAIN v.d |-> json_dumps(v.d[key])]
            IN  IF \E key \in DOMAIN kids : kids[key].j = "raise"
                THEN [j |-> "raise", exc |-> "TypeError"] ELSE JObject(kids)
      [] OTHER -> [j |-> "raise", exc |-> "TypeError"]

\* except Exception as e: return json.dumps({"type": "status", "msg": ...})
\* (against letting the exception leave _safe_json_dumps)
NoExcept(t) == t
ExceptFallback(t) ==
    IF t.j = "raise"
    THEN JObject("type" :> JScalar(PyStr("status"))
                 @@ "msg" :> JScalar([k |-> "str", s |-> "serialization_error", e |-> t.exc]))
    ELSE t

\* _safe_json_dumps(obj) on such a value, lines 105-110
SafeJsonDumps(v) ==
    LET sv == _sanitize(v)
    IN  ExceptFallback(IF Raised(sv) THEN [j |-> "raise", exc |-> sv.exc] ELSE json_dumps(sv))

\* The values the two functions are studied on: every scalar, every bytes of
\* up to MaxBytes bytes, and these nested up to MaxDepth deep in lists, tuples,
\* sets, dicts and objects.
ByteValues == {0, 10, 255}
RECURSIVE BytesUpTo(_)
BytesUpTo(n) ==
    IF n = 0 THEN {<<>>}
    ELSE BytesUpTo(n - 1)
         \cup {Append(q, b) : q \in {x \in BytesUpTo(n - 1) : Len(x) = n - 1}, b \in ByteValues}
RECURSIVE SanitizeInputs(_)
SanitizeInputs(depth) ==
    LET Leaves ==
            {PyNone, PyInt(7), PyBool(TRUE), PyStr("x"), PyOpaque, PyCycle,
             PyProto(PyDict("f" :> PyInt(1)), FALSE), PyProto(EmptyDict, TRUE)}
            \cup {PyFloat(x) : x \in {"1.5", "nan", "inf", "-inf"}}
            \cup {PyBytes(q) : q \in BytesUpTo(MaxBytes)}
        Hashable(c) == c.k \in {"none", "int", "bool", "str", "float", "bytes"}
        Wrap(c) ==
            {PySeq("list", <<c>>), PySeq("list", <<PyFloat("1.5"), c>>),
             PySeq("tuple", <<c>>), PyDict("k" :> c), PyDict("a" :> PyInt(1) @@ "k" :> c),
             PyObj(PyDict("attr" :> c))}
            \cup (IF Hashable(c) THEN {PySeq("set", <<c>>)} ELSE {})
    IN  IF depth = 0 THEN Leaves
        ELSE Leaves \cup UNION {Wrap(c) : c \in SanitizeInputs(depth - 1)}

\* ------------------------------------------------------ one function call
\* ch = _extract_channel(packet) on one event: the value returned and the
\* event as the call left it.
ExtractApply ==
    /\ ~result.done
    /\ result' = [done |-> TRUE, val |-> _extract_channel(arg)]
    /\ UNCHANGED <<arg, inbox, teardown, seen, bot, pc, lockVars, regVars, statsVars, ifaceVars,
                   timeVars, frameVars, histVars>>

InitExtract ==
    /\ InitBroker
    /\ arg \in ExtractEvents
    /\ result = NoResult
    /\ seen = NoSeen
SpecExtract == InitExtract /\ [][ExtractApply]_vars

\* _sanitize(obj) on one value
SanitizeApply ==
    /\ ~result.done
    /\ result' = [done |-> TRUE, fn |-> "_sanitize", val |-> _sanitize(arg)]
    /\ UNCHANGED <<arg, inbox, teardown, seen, bot, pc, lockVars, regVars, statsVars, ifaceVars,
                   timeVars, frameVars, histVars>>

\* line = _safe_json_dumps(obj) on one value, and the bytes _safe_send_line
\* makes of the line
DumpsApply ==
    /\ ~result.done
    /\ LET t == SafeJsonDumps(arg)
       IN  result' = [done |-> TRUE, fn |-> "_safe_json_dumps", val |-> t,
                      data |-> IF t.j = "raise" THEN <<>> ELSE WireData(<<JsonText(t)>>)]
    /\ UNCHANGED <<arg, inbox, teardown, seen, bot, pc, lockVars, regVars, statsVars, ifaceVars,
                   timeVars, frameVars, histVars>>

InitSanitize ==
    /\ InitBroker
    /\ arg \in SanitizeInputs(MaxDepth)
    /\ result = NoResult
    /\ seen = NoSeen
SpecSanitize == InitSanitize /\ [][SanitizeApply \/ DumpsApply]_vars

\* ------------------------------------------------------------------- claims
RECURSIVE SumOver(_, _)
SumOver(f, keys) ==
    IF keys = {} THEN 0
    ELSE LET x == CHOOSE y \in keys : TRUE
         IN  f[x] + SumOver(f, keys \ {x})
\* sum(d.values())
SumValues(f) == SumOver(f, DOMAIN f)

IncPcs == {"inc_lock", "inc_load", "inc_store", "inc_ch", "inc_unlock"}
BcPcs == {"bc_dumps", "bc_lock", "bc_iter", "bc_unlock"}
\* No increment is under way: every event delivered so far has been counted.
IncrementsComplete == \A t \in Deliverers : pc[t] \notin IncPcs

\* C1: whenever all N events delivered so far, by threads interleaved in any
\* way, have completed their increment, total = N and the by_channel values
\* add up to at most N: no increment is lost.
C1_NoLostIncrement ==
    IncrementsComplete =>
        /\ _total_packets = delivered
        /\ SumValues(_by_channel) <= delivered

\* Both delivering threads are inside the callback at once, each past its
\* increment, and both increments are counted.
C1_Witness ==
    /\ \A t \in Deliverers : pc[t] \in BcPcs
    /\ delivered = 2
    /\ _total_packets = 2

StatsSeen(o) == Realize(o).stats
\* The snapshot the loop got back from _get_stats and has not serialized yet.
LoopHoldsSnapshot == pc[LOOP] = "bc_dumps" /\ "stats" \in DOMAIN bc[LOOP].obj
\* The snapshot inside the line the loop has serialized.
LoopLineHasStats ==
    /\ pc[LOOP] \in {"bc_lock", "bc_iter", "bc_unlock"}
    /\ "stats" \in DOMAIN bc[LOOP].line[1].obj

\* C3: a snapshot returned by _get_stats is, for as long as it is held and when
\* it is serialized, the pair (total, by_channel) as it stood between two
\* increments: never one increment's total without its by_channel count, and
\* later increments do not change it.
C3_SnapshotAtomic ==
    /\ LoopHoldsSnapshot => StatsSeen(bc[LOOP].obj) \in history
    /\ LoopLineHasStats => bc[LOOP].line[1].obj.stats \in history

\* The loop holds a snapshot taken after one increment while a later increment
\* for a channel has already changed the live counters.
C3_Witness ==
    /\ LoopHoldsSnapshot
    /\ bc[LOOP].obj.stats.total = 1
    /\ _total_packets = 2
    /\ bc[LOOP].obj.stats.by_channel.val # _by_channel

\* The list q without the members of the set gone.
ListMinus(q, gone) == SelectSeq(q, LAMBDA x : x \notin gone)
Failed(t) == SeqToSet(bc[t].drop)
Written(t) == DOMAIN bc[t].ok

\* C4: while the write pass of a broadcast iterates, the registry is the one
\* the call started with (no thread adds to it or removes from it); when the
\* call is about to return, the registry is that list minus the connections
\* whose write failed: each of those is removed, each written one is still in.
C4_RegistryAfterBroadcast ==
    \A t \in Broadcasters :
        /\ pc[t] = "bc_iter" => _clients = bc[t].start
        /\ pc[t] = "bc_unlock" =>
              /\ _clients = ListMinus(bc[t].start, Failed(t))
              /\ SeqToSet(bc[t].start) = Failed(t) \cup Written(t)
              /\ \A c \in Failed(t) : c \notin SeqToSet(_clients)
              /\ \A c \in Written(t) : c \in SeqToSet(_clients)

\* A broadcast over two registered connections is about to return: one write
\* failed and one succeeded.
C4_Witness ==
    \E t \in Broadcasters :
        /\ pc[t] = "bc_unlock"
        /\ Len(bc[t].start) = 2
        /\ Cardinality(Failed(t)) = 1
        /\ Cardinality(Written(t)) = 1

\* The number of newline characters in a string.
NewlineCount(str) == Cardinality({n \in DOMAIN str : str[n] = NL})

\* C5: within one broadcast call every connection written to got the same
\* bytes, the serialized line followed by exactly one newline, and at the end
\* of the call that covers every connection registered at its start whose
\* write did not fail.
C5_SameBytesToAll ==
    \A t \in Broadcasters :
        /\ pc[t] \in {"bc_iter", "bc_unlock"} =>
              \A c \in Written(t) :
                  /\ bc[t].ok[c] = bc[t].line \o <<NL>>
                  /\ NewlineCount(bc[t].ok[c]) = 1
                  /\ \A c2 \in Written(t) : bc[t].ok[c2] = bc[t].ok[c]
        /\ pc[t] = "bc_unlock" =>
              \A c \in SeqToSet(bc[t].start) : c \notin Failed(t) => c \in Written(t)

\* A broadcast has written its line to two connections.
C5_Witness ==
    \E t \in Broadcasters :
        /\ pc[t] = "bc_unlock"
        /\ Cardinality(Written(t)) = 2
        /\ bc[t].line # <<>>

\* C6: a second removal of a connection from the registry (the handler's
\* cleanup after a broadcast pruned it) raises nothing and leaves the
\* registry, and so its size, as it was.
C6_RemovalIdempotent ==
    [][\A c \in Clients :
          (removals[c] >= 1 /\ removals'[c] = removals[c] + 1) =>
              /\ _clients' = _clients
              /\ crashed' = crashed
              /\ pc'[c] # "h_dead"]_vars

\* A connection pruned by a broadcast has gone through its handler's cleanup
\* as well.
C6_Witness ==
    \E c \in Clients :
        /\ removals[c] = 2
        /\ pc[c] \in {"h_unreg_unlock", "h_close", "h_done"}
        /\ c \notin SeqToSet(_clients)

\* C7: a client whose write blocks for good delays nobody else: a newly
\* accepted client still gets registered, and every broadcast that is waiting
\* for the registry (the callback's packet line, the loop's status lines)
\* still gets to write to the other clients.
C7_HungClientDelaysNobody ==
    /\ \A c \in Clients : (pc[c] = "h_register") ~> (pc[c] = "h_reg_unlock")
    /\ \A t \in {LOOP, "d1"} : (pc[t] = "bc_lock") ~> (pc[t] = "bc_iter")

\* The locks thread t holds.
HeldBy(t) ==
    {l \in {"clients", "stats", "interface"} :
        \/ l = "clients" /\ clients_lock = t
        \/ l = "stats" /\ stats_lock = t
        \/ l = "interface" /\ interface_lock = t}

\* C8: no thread holds more than one of the three locks at a time, and no
\* broadcast runs while the upstream-handle lock is held.
C8_OneLockAtATime ==
    \A t \in Threads :
        /\ Cardinality(HeldBy(t)) <= 1
        /\ interface_lock = t => pc[t] \notin BcPcs

\* C8 as amended: no thread holds the stats lock together with another lock;
\* the holder of the registry lock never takes or waits for another lock; the
\* only nesting is the loop's "connected" announcement, which takes the
\* registry lock while it holds the upstream-handle lock, and that is the only
\* broadcast run under the upstream-handle lock.
C8_LockNesting ==
    \A t \in Threads :
        /\ stats_lock = t => HeldBy(t) = {"stats"}
        /\ clients_lock = t =>
              pc[t] \in {"bc_iter", "bc_unlock", "h_reg_unlock", "h_unreg_unlock"}
        /\ Cardinality(HeldBy(t)) > 1 =>
              /\ t = LOOP
              /\ HeldBy(t) = {"interface", "clients"}
              /\ bc[LOOP].obj.msg = "connected"
        /\ (interface_lock = t /\ pc[t] \in BcPcs) =>
              t = LOOP /\ bc[LOOP].obj.msg = "connected"

\* The loop writes the "connected" line to a registered client with both the
\* upstream-handle lock and the registry lock in its hands.
C8_Witness ==
    /\ HeldBy(LOOP) = {"interface", "clients"}
    /\ pc[LOOP] = "bc_iter"
    /\ _clients # <<>>
    /\ bc[LOOP].obj.msg = "connected"

InErrorBroadcast == pc[LOOP] \in BcPcs /\ bc[LOOP].obj.msg \in ErrorKinds

\* C10: after a connect attempt raised (either kind of error), the clients
\* registered get the status line with the error, and the loop goes on to its
\* backoff and to the next connect attempt, unless shutdown was requested.
C10_RetryAfterConnectError ==
    /\ [](pc[LOOP] = "bc_unlock" /\ bc[LOOP].obj.msg \in ErrorKinds =>
            SeqToSet(bc[LOOP].start) = Failed(LOOP) \cup Written(LOOP))
    /\ InErrorBroadcast ~> (pc[LOOP] = "loop_backoff")
    /\ InErrorBroadcast ~> (pc[LOOP] = "loop_connect" \/ ~_should_run)

\* The connection the handle names has lost its link to the node.
UpstreamDown == _interface # NoConn /\ _interface \in lost

\* C11: once the upstream connection has failed, the handle is released and
\* the loop gets to a new connect attempt, unless shutdown was requested.
C11_ReconnectAfterUpstreamError ==
    UpstreamDown ~> (pc[LOOP] = "loop_connect" \/ ~_should_run)

\* C12: once shutdown has been carried out (flag cleared, teardown returned)
\* no upstream connection is open and the loop is not opening one.
C12_NothingOpenAfterShutdown ==
    pc[MAIN] = "m_done" =>
        /\ opened = {}
        /\ _interface = NoConn
        /\ pc[LOOP] \notin {"loop_connect", "loop_subscribe"}

\* C13: no broadcast writes a line to a connection whose handler has not yet
\* sent it the broker_info line: that line is the first one a client gets.
C13_GreetingFirst ==
    \A t \in Broadcasters : \A c \in Written(t) :
        pc[c] \notin {"h_reg_unlock", "h_ack"}

\* The clients whose remote end is up and reading.
Healthy == {c \in Clients : peer[c] = "reading"}

\* C14: when a broadcast is about to return, every healthy client registered at
\* its start has been written to and is still registered, whatever happened
\* to the others; and a step that removes a connection from the registry
\* keeps every healthy client registered and leaves the stats counters and
\* the upstream handle alone.
C14_FailureIsolated ==
    /\ [](\A t \in Broadcasters :
             pc[t] = "bc_unlock" =>
                \A c \in SeqToSet(bc[t].start) \cap Healthy :
                    c \in Written(t) /\ c \in SeqToSet(_clients))
    /\ [][(removals' # removals) =>
             /\ \A c \in SeqToSet(_clients) \cap Healthy : c \in SeqToSet(_clients')
             /\ UNCHANGED <<statsVars, ifaceVars>>]_vars

\* Of two registered clients one has closed its socket and its write failed;
\* the broadcast wrote to the other, which reads on and is the registry now.
C14_Witness ==
    \E t \in Broadcasters : \E c \in Healthy :
        /\ pc[t] = "bc_unlock"
        /\ Len(bc[t].start) = 2
        /\ Failed(t) = SeqToSet(bc[t].start) \ {c}
        /\ Written(t) = {c}
        /\ _clients = <<c>>

\* The threads inside the write pass of a broadcast call.
InWritePass == {t \in Broadcasters : pc[t] \in {"bc_iter", "bc_unlock"}}

\* C20: the write passes of broadcast calls never overlap: from the first
\* write of a call to its last, no other call writes to any client, so every
\* client gets the lines of any two calls in the same order.
C20_BroadcastsSerialized ==
    /\ Cardinality(InWritePass) <= 1
    /\ \A t \in Broadcasters : Written(t) # {} => InWritePass = {t}

\* One call has written its line to the first of two registered clients
\* while another call, with a different line, waits for the registry.
C20_Witness ==
    \E t1, t2 \in Broadcasters :
        /\ pc[t1] = "bc_iter"
        /\ Len(_clients) = 2
        /\ Cardinality(Written(t1)) = 1
        /\ pc[t2] = "bc_lock"
        /\ bc[t2].line # bc[t1].line

\* The number of delivering threads at one of the positions in S.
CountAt(S) == Cardinality({t \in Deliverers : pc[t] \in S})

LineChannel(ln) == ln[1].obj.packet.d["meta"].d["channelIndex"]

\* C16: the packet line of an event carries, as packet.meta.channelIndex, the
\* channel _extract_channel finds in the event as it was received (None when
\* no path resolves), whatever meta the event came with; the line a client
\* is written has it too; and the by_channel key counted for the event is
\* that same value.
C16_ChannelTag ==
    \A t \in Deliverers :
        /\ pc[t] \in {"bc_lock", "bc_iter", "bc_unlock"} =>
              /\ LineChannel(bc[t].line) = _extract_channel(cb[t].received)
              /\ \A c \in Written(t) :
                    LineChannel(bc[t].ok[c]) = _extract_channel(cb[t].received)
        /\ pc[t] \in {"inc_load", "inc_store", "inc_ch", "inc_unlock"} =>
              cb[t].ch = _extract_channel(cb[t].received)
        /\ pc[t] = "inc_ch" => IsInt(_extract_channel(cb[t].received))

\* A client has been written the packet line of the event that arrived with
\* decoded.header.channelIndex = 3 and a meta saying 0: the line says 3.
C16_Witness ==
    \E t \in Deliverers : \E c \in Written(t) :
        /\ cb[t].received = PktStaleMeta
        /\ LineChannel(bc[t].ok[c]) = PyInt(3)

\* The loop is producing (taking the snapshot for, serializing or writing) a
\* status line of one of the given kinds.
LoopEmits(kinds) ==
    /\ pc[LOOP] \in {"gs_lock", "gs_total", "gs_copy", "gs_unlock"} \cup BcPcs
    /\ bc[LOOP].obj.msg \in kinds
\* A "connected" line is due: the constructor has returned and the line is not
\* serialized yet.
AnnouncePending ==
    \/ pc[LOOP] = "loop_subscribe"
    \/ pc[LOOP] = "bc_dumps" /\ bc[LOOP].obj.msg = "connected"

\* C17: every successful open is announced by exactly one "connected" line
\* (the opens are the lines serialized plus the one that is due), no such line
\* exists without an open, the line carries the host, and by the time a
\* heartbeat or priming line is produced every open so far has been announced.
C17_ConnectedAnnounced ==
    /\ opens = announced + (IF AnnouncePending THEN 1 ELSE 0)
    /\ (pc[LOOP] \in {"bc_lock", "bc_iter", "bc_unlock"}
          /\ bc[LOOP].obj.msg = "connected") =>
             /\ bc[LOOP].line[1].obj.host = "host"
             /\ _interface # NoConn
             /\ _interface \in opened
    /\ LoopEmits({"heartbeat", "priming"}) => opens >= 1 /\ announced = opens

\* The heartbeat of the first connection is being written to a client, after
\* the one "connected" line of that connection.
C17_Witness ==
    /\ pc[LOOP] = "bc_iter"
    /\ bc[LOOP].obj.msg = "heartbeat"
    /\ _clients # <<>>
    /\ opens = 1
    /\ announced = 1

\* C18: a heartbeat or priming line is produced only while an upstream
\* connection is held and its link is up.
C18_AliveOnlyWhileConnected ==
    LoopEmits({"heartbeat", "priming"}) =>
        /\ _interface # NoConn
        /\ _interface \notin lost

\* The loop has written a line of the given kind to its clients.
LineOut(kind) == pc[LOOP] = "bc_unlock" /\ bc[LOOP].obj.msg = kind

\* C19: a heartbeat is decided only 5 units (HEARTBEAT_TICKS) or more after
\* the one before, a priming only 60 units (PRIMING_TICKS) or more after the
\* one before; each such line carries a stats snapshot; and from any state
\* where the loop is connected a heartbeat line and a priming line go out
\* again, unless shutdown is requested.
C19_Cadence ==
    /\ [][(pc[LOOP] = "loop_hb" /\ pc'[LOOP] = "gs_lock")
             => since_hb >= HEARTBEAT_TICKS]_vars
    /\ [][(pc[LOOP] = "loop_priming" /\ pc'[LOOP] = "gs_lock")
             => since_pr >= PRIMING_TICKS]_vars
    /\ []((pc[LOOP] \in {"bc_lock", "bc_iter", "bc_unlock"}
            /\ bc[LOOP].obj.msg \in {"heartbeat", "priming"})
             => "stats" \in DOMAIN bc[LOOP].line[1].obj)
    /\ (_interface # NoConn) ~> (LineOut("heartbeat") \/ ~_should_run)
    /\ (_interface # NoConn) ~> (LineOut("priming") \/ ~_should_run)

\* The connections whose handler has left its drain loop and finished the
\* removal of its socket from the registry.
Removed == {c \in Clients : pc[c] \in {"h_unreg_unlock", "h_close", "h_done"}}

\* C21: a handler whose read returned end of stream or raised eventually has
\* its connection out of the registry and its socket closed; from the removal
\* on the connection is not in the registry again and no broadcast call
\* writes to it.
C21_ClosedClientLeaves ==
    /\ \A c \in Clients :
           (pc[c] = "h_unreg") ~> (pc[c] = "h_done" /\ sock[c] = "closed"
                                   /\ c \notin SeqToSet(_clients))
    /\ [](\A c \in Removed :
              /\ c \notin SeqToSet(_clients)
              /\ \A t \in InWritePass : c \notin SeqToSet(bc[t].start))

\* C22: whatever a client sends is read and dropped: a step in which bytes
\* arrive or are read leaves every thread where it was (the handler still in
\* its drain loop), and leaves the registry, the sockets, the locks, the stats,
\* the upstream handle and every broadcast in progress as they were, so the
\* lines written afterwards are the ones written had nothing been sent.
C22_InputIgnored ==
    [][inbox' # inbox =>
         UNCHANGED <<pc, lockVars, regVars, statsVars, ifaceVars, frameVars>>]_vars

\* c1 sent bytes, its handler read them all and is still draining, and a
\* packet line of a later broadcast has been written to c1 and to c2.
C22_Witness ==
    /\ inbox["c1"].read = inbox["c1"].sent
    /\ inbox["c1"].read > 0
    /\ pc["c1"] = "h_recv"
    /\ pc["d1"] = "bc_unlock"
    /\ Written("d1") = {"c1", "c2"}
    /\ peer["c1"] = "reading"

\* The six places of an event where a channel may be, in the order of the
\* specification, and what the event holds there (Absent when a segment is
\* missing or the value on the way is not a mapping).
ChannelPaths ==
    << <<"decoded", "header", "channelIndex">>,
       <<"decoded", "header", "channel_index">>,
       <<"rxMetadata", "channel">>,
       <<"rx_metadata", "channel">>,
       <<"decoded", "channel">>,
       <<"decoded", "channel_index">> >>
Sub(v, key) == IF v.k = "dict" /\ key \in DOMAIN v.d THEN v.d[key] ELSE Absent
ValueAt(e, i) ==
    LET p == ChannelPaths[i]
    IN  IF Len(p) = 3 THEN Sub(Sub(Sub(e, p[1]), p[2]), p[3]) ELSE Sub(Sub(e, p[1]), p[2])
\* The event holds an integer there: a number, not a boolean.
IntAt(e, i) == ValueAt(e, i).k = "int"

\* C23: the channel extracted from an event is the value at the first of the
\* six paths, in their fixed order, that holds an integer; when
\* decoded.header.channelIndex holds an integer that integer is returned
\* whatever the other paths hold.
C23_FirstIntegerPath ==
    result.done =>
        /\ \A i \in 1..6 :
              (IntAt(arg, i) /\ \A j \in 1..(i - 1) : ~IntAt(arg, j))
                  => result.val = ValueAt(arg, i)
        /\ IntAt(arg, 1) => result.val = ValueAt(arg, 1)

\* C24: the extraction returns None exactly when none of the six paths holds
\* an integer, a path counting as empty when a segment is missing or the value
\* before its last segment is not a mapping; the call leaves the event as it
\* was.
C24_AbsentIffNoInteger ==
    /\ [](result.done => (result.val = PyNone <=> \A i \in 1..6 : ~IntAt(arg, i)))
    /\ [][arg' = arg]_vars

\* A syntax tree all of whose nodes are JSON.
RECURSIVE ValidJson(_)
ValidJson(t) ==
    CASE t.j \in {"null", "scalar"} -> TRUE
      [] t.j = "array" -> \A n \in DOMAIN t.e : ValidJson(t.e[n])
      [] t.j = "object" -> \A key \in DOMAIN t.d : ValidJson(t.d[key])
      [] OTHER -> FALSE

\* The object {"type": "status", "msg": "serialization_error: ..."}.
IsErrorStatus(t) ==
    /\ t.j = "object"
    /\ DOMAIN t.d = {"type", "msg"}
    /\ t.d["type"] = JScalar(PyStr("status"))
    /\ t.d["msg"].j = "scalar"
    /\ t.d["msg"].of.s = "serialization_error"

\* C25: serializing never raises: for every value the result is the text of
\* valid JSON, sent as one line; when sanitizing or encoding the value fails
\* the result is the status object that reports a serialization error.
C25_SerializeNeverRaises ==
    (result.done /\ result.fn = "_safe_json_dumps") =>
        /\ result.val.j # "raise"
        /\ ValidJson(result.val)
        /\ result.data = <<JsonText(result.val), NL>>
        /\ (Raised(_sanitize(arg)) \/ json_dumps(_sanitize(arg)).j = "raise")
               => IsErrorStatus(result.val)
        /\ arg \in {PyOpaque, PyCycle} => IsErrorStatus(result.val)

\* A dict holding a list with a value json cannot encode comes out as the
\* error status object.
C25_Witness ==
    /\ result.done
    /\ result.fn = "_safe_json_dumps"
    /\ arg = PyDict("k" :> PySeq("list", <<PyOpaque>>))
    /\ IsErrorStatus(result.val)
    /\ Len(result.data) = 2

\* The JSON written for a value: null where the value has None or a float
\* that is NaN or infinite, the scalar itself for every other number, string
\* and boolean, and the same shape for containers (a tuple or set as an array,
\* an object as its attributes or, if those cannot be walked, as its str()).
RECURSIVE Mirrors(_, _)
Mirrors(v, t) ==
    CASE v.k = "float" ->
            IF v.f \in {"nan", "inf", "-inf"} THEN t = JNull ELSE t = JScalar(v)
      [] v.k = "none" -> t = JNull
      [] v.k \in {"int", "bool"} -> t = JScalar(v)
      [] v.k = "str" -> t = JScalar(v)
      [] v.k \in {"list", "tuple", "set"} ->
            /\ t.j = "array"
            /\ DOMAIN t.e = DOMAIN v.e
            /\ \A n \in DOMAIN v.e : Mirrors(v.e[n], t.e[n])
      [] v.k = "dict" ->
            /\ t.j = "object"
            /\ DOMAIN t.d = DOMAIN v.d
            /\ \A key \in DOMAIN v.d : Mirrors(v.d[key], t.d[key])
      [] v.k = "object" -> t = JScalar(PyStr("repr")) \/ Mirrors(v.vars, t)
      [] OTHER -> TRUE

\* C29: when a value is serialized without falling back to the error status,
\* the output is valid JSON with null at every position where the value has
\* a NaN or an infinite float, at any depth, and every finite float and
\* other scalar at its position unchanged.
C29_NonFiniteBecomesNull ==
    (result.done /\ result.fn = "_safe_json_dumps" /\ ~IsErrorStatus(result.val)) =>
        /\ ValidJson(result.val)
        /\ Mirrors(arg, result.val)

\* -Infinity next to a finite float in a list inside a dict.
C29_Witness ==
    /\ result.done
    /\ result.fn = "_safe_json_dumps"
    /\ arg = PyDict("a" :> PyInt(1) @@ "k" :> PySeq("list", <<PyFloat("1.5"), PyFloat("-inf")>>))
    /\ result.val = JObject("a" :> JScalar(PyInt(1))
                            @@ "k" :> JArray(<<JScalar(PyFloat("1.5")), JNull>>))

\* The sanitized form of a value: where the value has bytes, a string of
\* twice as many characters, the two lowercase hexadecimal digits of each byte
\* in order.
RECURSIVE HexMirrors(_, _)
HexMirrors(v, s) ==
    LET Lower == <<"0", "1", "2", "3", "4", "5", "6", "7",
                   "8", "9", "a", "b", "c", "d", "e", "f">>
    IN  CASE v.k = "bytes" ->
                /\ s.k = "str"
                /\ "chars" \in DOMAIN s
                /\ Len(s.chars) = 2 * Len(v.bytes)
                /\ \A n \in 1..Len(v.bytes) :
                      /\ s.chars[2 * n - 1] = Lower[(v.bytes[n] \div 16) + 1]
                      /\ s.chars[2 * n] = Lower[(v.bytes[n] % 16) + 1]
          [] v.k \in {"list", "tuple", "set"} ->
                /\ s.k = "list"
                /\ DOMAIN s.e = DOMAIN v.e
                /\ \A n \in DOMAIN v.e : HexMirrors(v.e[n], s.e[n])
          [] v.k = "dict" ->
                /\ s.k = "dict"
                /\ DOMAIN s.d = DOMAIN v.d
                /\ \A key \in DOMAIN v.d : HexMirrors(v.d[key], s.d[key])
          [] v.k = "object" -> s = PyStr("repr") \/ HexMirrors(v.vars, s)
          [] OTHER -> TRUE

\* C30: bytes of length N, at any depth of the value, are sanitized to a
\* string of exactly 2N lowercase hexadecimal digits that spell the bytes in
\* order.
C30_BytesBecomeHex ==
    (result.done /\ result.fn = "_sanitize" /\ ~Raised(result.val)) =>
        HexMirrors(arg, result.val)

\* The bytes 0a ff in a dict inside a tuple.
C30_Witness ==
    /\ result.done
    /\ result.fn = "_sanitize"
    /\ arg = PySeq("tuple", <<PyDict("k" :> PyBytes(<<10, 255>>))>>)
    /\ result.val = PySeq("list", <<PyDict("k" :> PyChars(<<"0", "a", "f", "f">>))>>)

\* A step of delivering thread t in which a step of the callback raised: the
\* tagging of an event, or the summary after the stats were counted.
AbsorbedStep(t) ==
    \/ pc[t] = "cb_idle" /\ cb'[t] # cb[t] /\ pc'[t] # "inc_lock"
    \/ pc[t] = "inc_unlock" /\ pc'[t] \notin {"inc_unlock", "bc_dumps"}

\* C26: an exception raised in the callback is absorbed there: the step
\* leaves the delivering thread ready for the next event, holding no lock,
\* ends no thread, and leaves the registry, the sockets and the upstream
\* handle as they were; no delivering thread is ever ended by an exception.
C26_CallbackAbsorbsErrors ==
    /\ [](crashed \cap Deliverers = {})
    /\ [][\A t \in Deliverers :
             AbsorbedStep(t) =>
                /\ pc'[t] = "cb_idle"
                /\ stats_lock' # t /\ clients_lock' # t
                /\ UNCHANGED <<_clients, sock, ifaceVars, crashed>>]_vars

\* Two events were delivered, the first raised in the tagging and was not
\* counted, and the second has been counted and written to the client.
C26_Witness ==
    /\ delivered = 2
    /\ done_total = 1
    /\ packet_lines = 1
    /\ pc["d1"] = "bc_unlock"
    /\ cb["d1"].received \in Packets
    /\ Written("d1") = {"c1"}

\* C27: a status object handed to a broadcast has a stats field exactly when
\* its msg is heartbeat or priming (the connected and the error lines have
\* none), that field has a total and a by_channel, and the line serialized
\* from the object has the same fields.
C27_StatsOnlyOnBeats ==
    \A t \in Broadcasters :
        (pc[t] \in BcPcs /\ bc[t].obj.type = "status") =>
            /\ "stats" \in DOMAIN bc[t].obj <=> bc[t].obj.msg \in {"heartbeat", "priming"}
            /\ "stats" \in DOMAIN bc[t].obj => DOMAIN bc[t].obj.stats = {"total", "by_channel"}
            /\ bc[t].line # <<>> => DOMAIN bc[t].line[1].obj = DOMAIN bc[t].obj

\* A priming line with its stats has been written to the client, in a run
\* where a connected line (no stats) was announced before.
C27_Witness ==
    /\ pc[LOOP] = "bc_unlock"
    /\ bc[LOOP].obj.msg = "priming"
    /\ DOMAIN bc[LOOP].obj.stats = {"total", "by_channel"}
    /\ Written(LOOP) = {"c1"}
    /\ announced >= 1

\* C28: teardown tries to unsubscribe the callback, then to close the
\* connection, then clears the handle, in that order and whether or not the
\* first two raise, so the handle is empty when the upstream-handle lock is
\* released; when no connection is held it takes the lock and releases it and
\* changes nothing else.
C28_TeardownClearsHandle ==
    /\ [](/\ pc[MAIN] = "m_unlock" => _interface = NoConn
          /\ Len(teardown) <= 3
          /\ Len(teardown) >= 1 => teardown[1] \in {"unsubscribe", "unsubscribe_raised"}
          /\ Len(teardown) >= 2 => teardown[2] \in {"close", "close_raised"}
          /\ Len(teardown) >= 3 => teardown[3] = "clear"
          /\ pc[MAIN] \in {"m_unlock", "m_done"} => Len(teardown) \in {0, 3})
    /\ [][/\ (pc[MAIN] = "m_lock" /\ pc'[MAIN] # "m_lock" /\ _interface = NoConn)
               => (pc'[MAIN] = "m_unlock" /\ UNCHANGED <<ifaceVars, teardown>>)
          /\ (pc[MAIN] = "m_unlock" /\ pc'[MAIN] # "m_unlock")
               => UNCHANGED <<ifaceVars, teardown>>]_vars

\* Both the unsubscribe and the close raised, and the handle is empty when
\* teardown is about to release the lock.
C28_Witness ==
    /\ pc[MAIN] = "m_unlock"
    /\ teardown = <<"unsubscribe_raised", "close_raised", "clear">>
    /\ _interface = NoConn
    /\ subscribed

\* C31: the extraction returns an integer or None and nothing else: a value
\* at a path that is a string, a boolean, None or a mapping is passed over.
C31_IntegerOrAbsent ==
    result.done => result.val.k \in {"int", "none"}

\* The lock a thread is waiting for, by where it is ("none" when it is not at
\* the entry of a with block), and who holds each lock.
WaitsFor(t) ==
    IF pc[t] \in {"bc_lock", "h_register", "h_unreg"} THEN "clients"
    ELSE IF pc[t] \in {"inc_lock", "gs_lock"} THEN "stats"
    ELSE IF pc[t] \in {"loop_lock", "m_lock"} THEN "interface"
    ELSE "none"
Holder(l) ==
    IF l = "clients" THEN clients_lock
    ELSE IF l = "stats" THEN stats_lock
    ELSE interface_lock
Blocked(t) == WaitsFor(t) # "none" /\ Holder(WaitsFor(t)) \notin {NoThread, t}

Writing(t, c) ==
    \/ t = c /\ pc[c] = "h_ack"
    \/ /\ t \in Broadcasters
       /\ pc[t] = "bc_iter"
       /\ bc[t].i < Len(_clients)
       /\ _clients[bc[t].i + 1] = c

\* C33: at most one thread at a time is writing to the socket of any one
\* connection.
C33_OneWriterPerSocket ==
    \A c \in Clients : Cardinality({t \in Threads : Writing(t, c)}) <= 1

\* C34: in the stream a client receives, the total carried by a heartbeat or
\* priming line is at least the number of packet lines the client received
\* before that line (the statement as the specification implies it).
C34_StatsCoverEarlierPackets ==
    \A c \in Clients : seen.status[c].total >= seen.status[c].before

\* C34, as the code has it: a packet is counted before its line is written, so
\* no client ever holds more packet lines than the live total, and the snapshot
\* a heartbeat or priming line will carry is, when _get_stats takes it, at
\* least the number of packet lines every client holds.
C34_SnapshotCoversReceived ==
    \A c \in Clients :
        /\ seen.rx[c] <= _total_packets
        /\ pc[LOOP] \in {"gs_copy", "gs_unlock"} => snap.total >= seen.rx[c]

C34_Witness ==
    /\ pc[LOOP] = "gs_unlock"
    /\ seen.rx["c1"] = 1
    /\ snap.total = 1

\* C35: the stats of successive heartbeat and priming lines never go backwards:
\* in broadcast order the later line's total and every by_channel count are at
\* least the earlier line's, and a channel key once present stays present.
\* (prev and last are consecutive lines, so every earlier line is covered.)
C35_StatsNeverGoBack ==
    /\ seen.last.total >= seen.prev.total
    /\ \A k \in DOMAIN seen.prev.by_channel :
           /\ k \in DOMAIN seen.last.by_channel
           /\ seen.last.by_channel[k] >= seen.prev.by_channel[k]

C35_Witness ==
    /\ seen.lines = 2
    /\ seen.last.total > seen.prev.total
    /\ DOMAIN seen.prev.by_channel # {}
    /\ DOMAIN seen.last.by_channel # DOMAIN seen.prev.by_channel

\* C36: whenever the registry lock is free the registry holds each connection
\* at most once and none the broker has closed (removal comes before close in
\* broadcast pruning and in handler cleanup), and a broadcast's next write is
\* never to a socket the broker already closed.
C36_RegistryHoldsOpenSockets ==
    /\ ClientsLockFree =>
          /\ Cardinality(SeqToSet(_clients)) = Len(_clients)
          /\ \A c \in SeqToSet(_clients) : sock[c] # "closed"
    /\ \A t \in Broadcasters :
          (pc[t] = "bc_iter" /\ bc[t].i < Len(_clients)) =>
              sock[_clients[bc[t].i + 1]] # "closed"

C36_Witness ==
    /\ ClientsLockFree
    /\ _clients = <<"c1">>
    /\ sock["c2"] = "closed" /\ pc["c2"] = "h_recv"
    /\ \E t \in Broadcasters : pc[t] = "bc_dumps"

\* ------------------------------------------------------------ the probe client
\* broker_probe_v2.py.  json.loads(line) on the text json.dumps wrote
RECURSIVE json_loads(_)
json_loads(t) ==
    CASE t.j = "null" -> PyNone
      [] t.j \in {"scalar", "bare"} -> t.of
      [] t.j = "array" -> PySeq("list", [n \in DOMAIN t.e |-> json_loads(t.e[n])])
      [] t.j = "object" -> PyDict([key \in DOMAIN t.d |-> json_loads(t.d[key])])

\* extract_channel(pkt) of the probe: three paths
probe_candidates ==
    << <<"decoded", "header", "channelIndex">>,
       <<"rxMetadata", "channel">>,
       <<"decoded", "channel">> >>
extract_channel(pkt) == FirstInt(pkt, probe_candidates)

\* a == b in Python for the values a channel can be (True == 1)
PyEq(a, b) == IF IsInt(a) /\ IsInt(b) THEN KeyOf(a) = KeyOf(b) ELSE a = b

\* handle_broker_message(obj, canal_filter) on a packet line: the channel the
\* probe works with and whether the packet passes the filter and is counted
handle_broker_message(obj, canal_filter) ==
    LET pkt == DictGet(obj, "packet", EmptyDict)
        ch == extract_channel(pkt)
    IN  [ch |-> ch,
         counted |-> DictGet(obj, "type", PyNone) = PyStr("packet")
                     /\ (canal_filter = PyNone \/ PyEq(ch, canal_filter))]

\* The broker tags the event and serializes the packet line (lines 243-253);
\* the probe parses the line and handles it under some --canal filter.
ProbeFilters == {PyNone} \cup {PyInt(n) : n \in 0..2}
ProbeApply ==
    /\ ~result.done
    /\ \E canal_filter \in ProbeFilters :
          LET obj == json_loads(SafeJsonDumps(PyDict("type" :> PyStr("packet")
                                                     @@ "packet" :> TagPacket(arg))))
              out == handle_broker_message(obj, canal_filter)
              tag == _get(obj, <<"packet", "meta", "channelIndex">>)
          IN  result' = [done |-> TRUE, probe |-> out.ch, meta |-> tag,
                         canal |-> canal_filter, counted |-> out.counted]
    /\ UNCHANGED <<arg, inbox, teardown, seen, bot, pc, lockVars, regVars, statsVars, ifaceVars,
                   timeVars, frameVars, histVars>>
SpecProbe == InitExtract /\ [][ProbeApply]_vars

\* C37: for every packet line the broker emits, the probe's extract_channel on
\* the received packet equals the meta.channelIndex the broker injected, so the
\* probe's filter passes exactly the packets the broker counted under the
\* filter's channel.
C37_ProbeAgreesWithBroker ==
    (result.done /\ "probe" \in DOMAIN result) =>
        /\ result.probe = result.meta
        /\ result.canal # PyNone => (result.counted <=> PyEq(result.meta, result.canal))

\* ---------------------------------------------------------- the Telegram bot
\* Telegram_Bot_Broker_v2.2.py.  The application handles one update at a time,
\* so the command handlers run one after the other; the run-loop task takes
\* its steps whenever a handler is suspended or none is running.
Chats == 1..MaxChats

\* delay = min(delay * backoff, 60.0) from 1.0 with backoff 1.5: the delay after
\* n failures in a row is min(1.5^n, 60), which is 60 from n = 11 on.
DELAY_CAP_STEPS == 11

\* self._task and not self._task.done() (against creating a task regardless)
NeverRunning(b) == FALSE
TaskRunning(b) == b._task # NoTask /\ b.tasks[b._task].at # "done"

\* asyncio.create_task(self._run_loop(), name="broker-client-loop")
NewTask == [at |-> "new", cancelled |-> FALSE, delay |-> 0]

\* BrokerClient.start()
start(b) ==
    IF TaskRunning(b) THEN b
    ELSE [b EXCEPT !._running = TRUE,
                   !.tasks = Append(@, NewTask),
                   !._task = Len(b.tasks) + 1]

\* /escuchar from a chat: make the BrokerClient if there is none, add the
\* chat, await BROKER.start() (which never suspends)
escuchar_cmd(chat) ==
    /\ bot.handler = "idle"
    /\ TaskRunning(bot) \/ Len(bot.tasks) < MaxTasks
    /\ bot' = [start([bot EXCEPT !.made = TRUE, !._chat_ids = @ \cup {chat}])
                  EXCEPT !.last = "start"]
    /\ UNCHANGED <<inbox, arg, result, teardown, seen, pc, lockVars, regVars, statsVars,
                   ifaceVars, timeVars, frameVars, histVars>>

\* /parar_escucha from a chat: remove the chat and, if it was the last one,
\* BROKER.stop() up to its await: clear _running, cancel the task
parar_escucha_cmd(chat) ==
    /\ bot.handler = "idle"
    /\ bot.made
    /\ LET b == [bot EXCEPT !._chat_ids = @ \ {chat}]
       IN  bot' = IF b._chat_ids # {} THEN b
                  ELSE IF b._task = NoTask
                  THEN [b EXCEPT !._running = FALSE, !.last = "stop"]
                  ELSE [b EXCEPT !._running = FALSE,
                                 !.tasks[b._task].cancelled = (b.tasks[b._task].at # "done"),
                                 !.handler = "stop_await"]
    /\ UNCHANGED <<inbox, arg, result, teardown, seen, pc, lockVars, regVars, statsVars,
                   ifaceVars, timeVars, frameVars, histVars>>

\* await self._task returns (or raises CancelledError, which is caught);
\* self._task = None
StopResume ==
    /\ bot.handler = "stop_await"
    /\ bot.tasks[bot._task].at = "done"
    /\ bot' = [bot EXCEPT !._task = NoTask, !.handler = "idle", !.last = "stop"]
    /\ UNCHANGED <<inbox, arg, result, teardown, seen, pc, lockVars, regVars, statsVars,
                   ifaceVars, timeVars, frameVars, histVars>>

\* One step of task n in _run_loop, from one await to the next.  A cancelled
\* task gets CancelledError at the await it is suspended in (or before its
\* first step), which `except Exception` does not catch: the task ends.
RunLoopStep(n) ==
    /\ n \in DOMAIN bot.tasks
    /\ bot.tasks[n].at # "done"
    /\ LET t == bot.tasks[n]
           top == IF bot._running THEN "connecting" ELSE "done"
       IN  \E next \in
               IF t.cancelled THEN {[t EXCEPT !.at = "done"]}
               ELSE IF t.at = "new" THEN {[t EXCEPT !.at = top]}
               ELSE IF t.at = "connecting"
               THEN {[t EXCEPT !.at = "subscribing"], [t EXCEPT !.at = "sleeping"]}
               ELSE IF t.at = "subscribing" THEN {[t EXCEPT !.at = "reading", !.delay = 0]}
               ELSE IF t.at = "reading"
               THEN IF bot._running
                    THEN {t, [t EXCEPT !.at = "sleeping"]}
                    ELSE {[t EXCEPT !.at = top]}
               ELSE {[t EXCEPT !.at = top,
                               !.delay = IF @ < DELAY_CAP_STEPS THEN @ + 1 ELSE @]} :
               /\ next # t
               /\ bot' = [bot EXCEPT !.tasks[n] = next]
    /\ UNCHANGED <<inbox, arg, result, teardown, seen, pc, lockVars, regVars, statsVars,
                   ifaceVars, timeVars, frameVars, histVars>>

NextBot ==
    \/ \E chat \in Chats : escuchar_cmd(chat) \/ parar_escucha_cmd(chat)
    \/ StopResume
    \/ \E n \in 1..MaxTasks : RunLoopStep(n)
SpecBot == Init /\ [][NextBot]_vars

\* C38: after any sequence of start() and stop() calls at most one run-loop
\* task is alive: a start() while a task is running creates no second one,
\* after stop() has returned no task is alive and the handle is empty, and a
\* later start() creates exactly one new task, which the handle refers to.
Alive == {n \in DOMAIN bot.tasks : bot.tasks[n].at # "done"}
C38_OneRunLoopTask ==
    /\ Cardinality(Alive) <= 1
    /\ (bot.handler = "idle" /\ bot.last = "stop") =>
           Alive = {} /\ bot._task = NoTask
    /\ (bot.handler = "idle" /\ bot.last = "start") => Alive = {bot._task}

C38_Witness ==
    /\ bot.handler = "idle" /\ bot.last = "start"
    /\ Len(bot.tasks) = 2
    /\ bot._task = 2
    /\ bot.tasks[2].at = "reading"
    /\ bot._chat_ids = Chats

====
